---- MODULE Spec2Model ----
(***************************************************************************)
(* Model of the Fincash financial calculation engine (FinancialEngine,     *)
(* src/fincash/src/financial_engine.py) and of the dispatcher that calls   *)
(* it (calculate_financial_model, src/fincash/src/routes/                  *)
(* financial_models.py).                                                   *)
(*                                                                         *)
(* Numbers.  The engine computes on Python floats.  The model computes on  *)
(* exact rationals <<n, d>> (d > 0, lowest terms), so that every identity  *)
(* the engine relies on is decided without floating error, and round() is  *)
(* Python's round-half-even on the exact value.  A value that float() or   *)
(* int() cannot coerce is the pair BadValue.                               *)
(*                                                                         *)
(* Calls.  The evaluators call their sensitivity sweeps, which call the    *)
(* evaluators again.  The interpreter's call stack is the variable stack;  *)
(* a call that would make it longer than RecursionLimit raises             *)
(* RecursionError in the caller, as CPython does.                          *)
(***************************************************************************)
EXTENDS Integers, Sequences, FiniteSets, TLC

(***************************************************************************)
(* Exact arithmetic standing for float arithmetic.                         *)
(***************************************************************************)
Abs(n) == IF n < 0 THEN 0 - n ELSE n

RECURSIVE GCD(_, _)
GCD(a, b) == IF b = 0 THEN a ELSE GCD(b, a % b)

Norm(n, d) ==
    LET By(g) == <<n \div g, d \div g>> IN By(GCD(Abs(n), d))

Rat(n, d) == Norm(n, d)

Zero == <<0, 1>>

One == <<1, 1>>

BadValue == <<0, 0>>

IsNum(x) == x[2] # 0

RNeg(x) == <<0 - x[1], x[2]>>

RAdd(x, y) ==
    LET Over(g) ==
            Norm(x[1] * (y[2] \div g) + y[1] * (x[2] \div g), (x[2] \div g) * y[2])
    IN  Over(GCD(x[2], y[2]))

RSub(x, y) == RAdd(x, RNeg(y))

RMul(x, y) ==
    LET Cross(g1, g2) ==
            <<(x[1] \div g1) * (y[1] \div g2), (x[2] \div g2) * (y[2] \div g1)>>
    IN  IF x[1] = 0 \/ y[1] = 0 THEN Zero
        ELSE Cross(GCD(Abs(x[1]), y[2]), GCD(Abs(y[1]), x[2]))

RInv(x) == IF x[1] < 0 THEN <<0 - x[2], 0 - x[1]>> ELSE <<x[2], x[1]>>

RDiv(x, y) == RMul(x, RInv(y))

RIsZero(x) == x[1] = 0

RSign(x) == IF x[1] < 0 THEN -1 ELSE IF x[1] = 0 THEN 0 ELSE 1

RECURSIVE CmpPos(_, _, _, _)
\* a/b against c/d for a, c >= 0 and b, d > 0: -1, 0 or 1.
CmpPos(a, b, c, d) ==
    LET Step(qa, qc, ra, rc) ==
            IF qa < qc THEN -1
            ELSE IF qa > qc THEN 1
            ELSE IF ra = 0 /\ rc = 0 THEN 0
            ELSE IF ra = 0 THEN -1
            ELSE IF rc = 0 THEN 1
            ELSE CmpPos(d, rc, b, ra)
    IN  Step(a \div b, c \div d, a % b, c % d)

\* Of two negative numbers the one of larger magnitude is the smaller.
RCmp(x, y) ==
    LET Signs(sx, sy) ==
            IF sx # sy THEN (IF sx < sy THEN -1 ELSE 1)
            ELSE (IF sx >= 0 THEN 1 ELSE -1) * CmpPos(Abs(x[1]), x[2], Abs(y[1]), y[2])
    IN  Signs(RSign(x), RSign(y))

RLt(x, y) == RCmp(x, y) < 0

RLe(x, y) == RCmp(x, y) <= 0

RAbs(x) == <<Abs(x[1]), x[2]>>

RMax(x, y) == IF RLt(x, y) THEN y ELSE x

\* x + y on doubles where the rounding of the sum decides a comparison: a
\* double keeps 53 significant bits, so a term of at most 2^-27 added to one
\* of at least 2^27 is below half a unit in the last place and is lost.
\* Every other sum is taken exactly.
FloatAdd(x, y) ==
    LET Lost(small, large) ==
            /\ small[1] # 0
            /\ RCmp(RAbs(small), <<1, 134217728>>) <= 0
            /\ RCmp(<<134217728, 1>>, RAbs(large)) <= 0
    IN  IF Lost(x, y) THEN y ELSE IF Lost(y, x) THEN x ELSE RAdd(x, y)

RInt(n) == <<n, 1>>

RECURSIVE RPow(_, _)
RPow(x, k) == IF k = 0 THEN One ELSE RMul(x, RPow(x, k - 1))

RECURSIVE Pow10(_)
Pow10(k) == IF k = 0 THEN 1 ELSE 10 * Pow10(k - 1)

RECURSIVE LongDiv(_, _, _, _)
\* k more decimal digits of quotient q with remainder rem over d.
LongDiv(q, rem, d, k) ==
    IF k = 0 THEN <<q, rem>>
    ELSE LongDiv(q * 10 + (rem * 10) \div d, (rem * 10) % d, d, k - 1)

\* round(x, k): to k decimals, ties to the even neighbour.
RRound(x, k) ==
    LET Nearest(q, rem) ==
            IF 2 * rem < x[2] THEN q
            ELSE IF 2 * rem > x[2] THEN q + 1
            ELSE IF q % 2 = 0 THEN q ELSE q + 1
        Digits(qr) == Norm(Nearest(qr[1], qr[2]), Pow10(k))
    IN  Digits(LongDiv(x[1] \div x[2], x[1] % x[2], x[2], k))

Pct(n) == Rat(n, 100)

\* round(x * 100, k)
RRoundPct(x, k) == RMul(RRound(x, k + 2), RInt(100))

\* int(x): truncation towards zero.
ToInt(x) == IF x[1] < 0 THEN 0 - (Abs(x[1]) \div x[2]) ELSE x[1] \div x[2]

\* params.get(key, default)
Get(p, k, default) == IF k \in DOMAIN p THEN p[k] ELSE default

\* A raised exception, as a value travelling up to the nearest handler.
Raise(name) == [exc |-> name]

Raised(v) == "exc" \in DOMAIN v


(***************************************************************************)
(* calculate_dcf: the body of the try block up to the call of the sweep.   *)
(***************************************************************************)
DefaultRevenusInitiaux == 1000000

DepreciationPct == 3

DcfParams(p) ==
    [initial_revenue      |-> Get(p, "revenus_initiaux", RInt(DefaultRevenusInitiaux)),
     growth_rate          |-> Get(p, "taux_croissance", Pct(5)),
     discount_rate        |-> Get(p, "taux_actualisation", Pct(10)),
     projection_years     |-> Get(p, "duree_projection", RInt(5)),
     terminal_growth      |-> Get(p, "croissance_terminale", Pct(2)),
     ebitda_margin        |-> Get(p, "marge_ebitda", Pct(20)),
     tax_rate             |-> Get(p, "taux_impot", Pct(30)),
     capex_rate           |-> Get(p, "taux_capex", Pct(5)),
     working_capital_rate |-> Get(p, "taux_bfr", Pct(2))]

\* One pass of the projection loop: the exact values of year `year`.
DcfYear(in, year) ==
    LET Flows(revenue, ebitda, depreciation, ebit, taxes, capex, wc_change, pv_factor) ==
            LET nopat == RSub(ebit, taxes)
                Discounted(fcf) ==
                    [revenue |-> revenue, ebitda |-> ebitda, depreciation |-> depreciation,
                     ebit |-> ebit, taxes |-> taxes, nopat |-> nopat, capex |-> capex,
                     wc_change |-> wc_change, fcf |-> fcf, pv_factor |-> pv_factor,
                     present_value |-> RMul(fcf, pv_factor)]
            IN  Discounted(RSub(RSub(RAdd(nopat, depreciation), capex), wc_change))
        Taxed(revenue, ebitda, depreciation, ebit) ==
            Flows(revenue, ebitda, depreciation, ebit,
                  IF RSign(ebit) > 0 THEN RMul(ebit, in.tax_rate) ELSE Zero,
                  RMul(revenue, in.capex_rate),
                  RMul(RMul(revenue, in.working_capital_rate), in.growth_rate),
                  RInv(RPow(RAdd(One, in.discount_rate), year)))
        Margins(revenue, ebitda, depreciation) ==
            Taxed(revenue, ebitda, depreciation, RSub(ebitda, depreciation))
        Sold(revenue) ==
            Margins(revenue, RMul(revenue, in.ebitda_margin), RMul(revenue, Pct(DepreciationPct)))
    IN  Sold(RMul(in.initial_revenue, RPow(RAdd(One, in.growth_rate), year)))

\* The record appended to projections.
DcfProjection(in, year) ==
    LET Rounded(y) ==
            [annee |-> year,
             revenus |-> RRound(y.revenue, 0),
             ebitda |-> RRound(y.ebitda, 0),
             ebit |-> RRound(y.ebit, 0),
             nopat |-> RRound(y.nopat, 0),
             fcf |-> RRound(y.fcf, 0),
             facteur_actualisation |-> RRound(y.pv_factor, 4),
             valeur_actuelle |-> RRound(y.present_value, 0)]
    IN  Rounded(DcfYear(in, year))

RECURSIVE DcfTotalPv(_, _)
DcfTotalPv(in, n) ==
    IF n = 0 THEN Zero ELSE RAdd(DcfTotalPv(in, n - 1), DcfYear(in, n).present_value)

\* A valuation that counts the present value of the terminal value twice.
DcfEnterpriseValueUndiscounted(total_pv, terminal_pv) ==
    RAdd(total_pv, RMul(terminal_pv, RInt(2)))

\* enterprise_value = total_pv + terminal_pv
DcfEnterpriseValue(total_pv, terminal_pv) == RAdd(total_pv, terminal_pv)

\* Lines 26-92.  The value is the locals the rest of the method reads, or the
\* exception the statements raise.
DcfCore(p) ==
    LET Valued(in, n, projections, total_pv, terminal_value) ==
            LET Summed(terminal_pv) ==
                    [in |-> in,
                     projections |-> projections,
                     total_pv |-> total_pv,
                     terminal_value |-> terminal_value,
                     terminal_pv |-> terminal_pv,
                     enterprise_value |-> DcfEnterpriseValue(total_pv, terminal_pv)]
            IN  Summed(RDiv(terminal_value, RPow(RAdd(One, in.discount_rate), n)))
        Projected(in, n, projections) ==
            Valued(in, n, projections, DcfTotalPv(in, n),
                   RDiv(RMul(projections[n].fcf, RAdd(One, in.terminal_growth)),
                        RSub(in.discount_rate, in.terminal_growth)))
        Converted(in, n) ==
            IF n >= 1 /\ RIsZero(RAdd(One, in.discount_rate)) THEN Raise("ZeroDivisionError")
            ELSE IF n < 1 THEN Raise("IndexError")
            ELSE IF RIsZero(RSub(in.discount_rate, in.terminal_growth))
                 THEN Raise("ZeroDivisionError")
            ELSE Projected(in, n, [t \in 1..n |-> DcfProjection(in, t)])
        Read(raw) ==
            IF \E k \in DOMAIN raw : ~IsNum(raw[k]) THEN Raise("ValueError")
            ELSE Converted([raw EXCEPT !.projection_years = ToInt(raw.projection_years)],
                           ToInt(raw.projection_years))
    IN  Read(DcfParams(p))

\* _generate_dcf_recommendations: the list as tags, or the exception raised.
DcfRecommendations(enterprise_value, projections, terminal_pv) ==
    LET Listed(n, share, ratio) ==
            [list |-> <<"valeur">>
             \o (IF RLt(Pct(70), share) THEN <<"terminale_forte">>
                 ELSE <<"terminale_equilibree">>)
             \o (IF n >= 2 /\ RSign(ratio) >= 0 /\ RLt(RPow(Rat(115, 100), n - 1), ratio)
                   THEN <<"croissance_optimiste">>
                 ELSE IF n >= 2 /\ RLt(ratio, One) THEN <<"decroissance">>
                 ELSE <<>>)
             \o <<"sensibilite", "comparables">>]
        Grown(n, first, last) ==
            IF RIsZero(enterprise_value) THEN Raise("ZeroDivisionError")
            ELSE IF n >= 2 /\ RIsZero(first) THEN Raise("ZeroDivisionError")
            ELSE IF n >= 3 /\ RSign(last) * RSign(first) < 0
                 THEN Raise("TypeError")   \* negative ** fraction is complex; complex > 0.15
            ELSE Listed(n, RDiv(terminal_pv, enterprise_value), RDiv(last, first))
    IN  Grown(Len(projections), projections[1].fcf, projections[Len(projections)].fcf)

\* Lines 97-110: the mapping returned once the sweep is back.
DcfFinish(core, sensitivity) ==
    LET Mapping(in, ev, rec) ==
            IF Raised(rec) THEN rec
            ELSE [projections |-> core.projections,
                  valeur_actuelle_flux |-> RRound(core.total_pv, 0),
                  valeur_terminale |-> RRound(core.terminal_value, 0),
                  valeur_actuelle_terminale |-> RRound(core.terminal_pv, 0),
                  valeur_entreprise |-> RRound(ev, 0),
                  analyse_sensibilite |-> sensitivity,
                  ratios_cles |->
                     [multiple_revenus |-> RRound(RDiv(ev, in.initial_revenue), 2),
                      multiple_ebitda |->
                          RRound(RDiv(ev, RMul(in.initial_revenue, in.ebitda_margin)), 2),
                      part_valeur_terminale |-> RRoundPct(RDiv(core.terminal_pv, ev), 1)],
                  recommandations |-> rec.list]
        Recommended(in, ev) ==
            IF RIsZero(in.initial_revenue) \/ RIsZero(in.ebitda_margin) \/ RIsZero(ev)
            THEN Raise("ZeroDivisionError")
            ELSE Mapping(in, ev, DcfRecommendations(ev, core.projections, core.terminal_pv))
    IN  Recommended(core.in, core.enterprise_value)

(***************************************************************************)
(* _dcf_sensitivity_analysis                                               *)
(***************************************************************************)
SweepDeltas == <<Pct(-2), Pct(-1), Zero, Pct(1), Pct(2)>>

\* The scenarios in the order the two loops run them: the key that is
\* replaced, and the parameter mapping of the re-evaluation.
DcfScenarios(params) ==
    LET Scenario(axis, key, delta, value) ==
            [axis |-> axis,
             delta |-> delta,
             params |-> [k \in DOMAIN params \cup {key} |->
                            IF k = key THEN value ELSE params[k]]]
    IN  [i \in 1..10 |->
            IF i <= 5
            THEN Scenario("croissance", "taux_croissance", SweepDeltas[i],
                          RAdd(Get(params, "taux_croissance", Pct(5)), SweepDeltas[i]))
            ELSE Scenario("actualisation", "taux_actualisation", SweepDeltas[i - 5],
                          RAdd(Get(params, "taux_actualisation", Pct(10)), SweepDeltas[i - 5]))]

\* What one pass of a loop does with the mapping the re-evaluation returned:
\* the entry appended, <<>> when the mapping has no valuation, or the
\* exception of the division by base_value.
DcfSweepEntry(scenario, result, base_value) ==
    IF "valeur_entreprise" \notin DOMAIN result THEN [entries |-> <<>>]
    ELSE IF RIsZero(base_value) THEN Raise("ZeroDivisionError")
    ELSE [entries |->
            <<[scenario |-> scenario.delta,
               valeur |-> result.valeur_entreprise,
               variation |-> RMul(RSub(RDiv(result.valeur_entreprise, base_value), One),
                                  RInt(100))]>>]


(***************************************************************************)
(* Optional values: Python's None and a present value.                     *)
(***************************************************************************)
None == [none |-> TRUE]

Some(v) == [value |-> v]

IsNone(v) == "none" \in DOMAIN v

(***************************************************************************)
(* _calculate_irr                                                          *)
(***************************************************************************)
RECURSIVE NpvSum(_, _, _)
\* sum of cash_flows[i] / (1 + rate) ** i over i = 1..n
NpvSum(cash_flows, rate, n) ==
    IF n = 0 THEN Zero
    ELSE RAdd(NpvSum(cash_flows, rate, n - 1),
              RDiv(cash_flows[n], RPow(RAdd(One, rate), n)))

npv_function(initial_investment, cash_flows, rate) ==
    RAdd(RNeg(initial_investment), NpvSum(cash_flows, rate, Len(cash_flows)))

IrrTolerance == Rat(1, 1000000)

\* What fsolve(npv_function, 0.1)[0] may hand back: any rate (a root, the
\* initial guess, an iterate that did not converge), or an exception.
FsolveOutcomes ==
    {Some(Zero), Some(Rat(1, 10)), Some(Rat(1, 2)), Some(One), Raise("RuntimeError")}

\* Lines 474-482 with `solved` the outcome of the fsolve call.
IrrAccepted(initial_investment, cash_flows, irr) ==
    /\ ~RIsZero(RAdd(One, irr))
    /\ RLt(RAbs(npv_function(initial_investment, cash_flows, irr)), IrrTolerance)
    /\ RLt(Rat(-99, 100), irr)
    /\ RLt(irr, One)

\* An IRR utility that hands back whatever the solver produced.
calculate_irr_unchecked(initial_investment, cash_flows, solved) ==
    IF Raised(solved) THEN None ELSE Some(solved.value)

calculate_irr(initial_investment, cash_flows, solved) ==
    IF Raised(solved) THEN None
    ELSE IF IrrAccepted(initial_investment, cash_flows, solved.value) THEN Some(solved.value)
    ELSE None

(***************************************************************************)
(* _calculate_payback_period, _calculate_discounted_payback                *)
(***************************************************************************)
RECURSIVE PaybackFrom(_, _, _, _)
\* The loop from index i (1-based) with `cumulative` carried in: the value
\* returned, or the exception of the division by a zero flow.
PaybackFrom(target, flows, i, cumulative) ==
    LET Reached(c) ==
            IF RLe(target, c)
            THEN IF RIsZero(flows[i]) THEN Raise("ZeroDivisionError")
                 ELSE Some(RSub(RInt(i), RDiv(RSub(c, target), flows[i])))
            ELSE PaybackFrom(target, flows, i + 1, c)
    IN  IF i > Len(flows) THEN Some(RInt(Len(flows)))
        ELSE Reached(RAdd(cumulative, flows[i]))

\* A payback truncated to whole periods, without the interpolation.
calculate_payback_period_whole(initial_investment, cash_flows) ==
    LET Whole(payback) ==
            IF Raised(payback) THEN payback
            ELSE Some(RInt(0 - ToInt(RNeg(payback.value))))
    IN  Whole(PaybackFrom(initial_investment, cash_flows, 1, Zero))

calculate_payback_period(initial_investment, cash_flows) ==
    PaybackFrom(initial_investment, cash_flows, 1, Zero)

calculate_discounted_payback(initial_investment, discounted_flows) ==
    PaybackFrom(initial_investment,
                [i \in 1..Len(discounted_flows) |-> discounted_flows[i].valeur_actuelle],
                1, Zero)

(***************************************************************************)
(* calculate_investment_budgeting                                          *)
(***************************************************************************)
DefaultInvestissement == 1000000

DefaultFluxUniforme == 200000

InvDiscountedFlow(cash_flows, discount_rate, year) ==
    LET Flow(pv_factor) ==
            [annee |-> year,
             flux_brut |-> cash_flows[year],
             facteur_actualisation |-> RRound(pv_factor, 4),
             valeur_actuelle |-> RRound(RMul(cash_flows[year], pv_factor), 0)]
    IN  Flow(RInv(RPow(RAdd(One, discount_rate), year)))

\* npv = -initial_investment + sum of the present values
InvNpv(initial_investment, cash_flows, discount_rate) ==
    npv_function(initial_investment, cash_flows, discount_rate)

\* profitability_index = (npv + initial_investment) / initial_investment
InvProfitabilityIndex(npv, initial_investment) ==
    RDiv(FloatAdd(npv, initial_investment), initial_investment)

\* `if irr`: None and 0.0 are both false.
Truthy(irr) == ~IsNone(irr) /\ ~RIsZero(irr.value)

InvTir(irr) == IF Truthy(irr) THEN Some(RRoundPct(irr.value, 2)) ELSE None

InvDecision(npv, irr, discount_rate, profitability_index) ==
    [rentable |-> RSign(npv) > 0,
     tir_superieur_cout_capital |-> IF Truthy(irr) THEN RLt(discount_rate, irr.value) ELSE FALSE,
     indice_prof_acceptable |-> RLt(One, profitability_index)]

\* _generate_investment_recommendations, as tags.
InvRecommendations(npv, irr, payback, pi, discount_rate) ==
    <<IF RSign(npv) > 0 THEN "van_positive" ELSE "van_negative">>
    \o (IF Truthy(irr)
        THEN <<IF RLt(discount_rate, irr.value) THEN "tir_superieur" ELSE "tir_inferieur">>
        ELSE <<>>)
    \o <<IF RLe(payback, RInt(3)) THEN "delai_court"
         ELSE IF RLe(payback, RInt(5)) THEN "delai_modere" ELSE "delai_long">>
    \o <<IF RLt(Rat(12, 10), pi) THEN "indice_eleve"
         ELSE IF RLt(One, pi) THEN "indice_acceptable" ELSE "indice_insuffisant">>

\* Lines 120-156 with `solved` the outcome of the fsolve call in _calculate_irr.
InvCore(p, solved) ==
    LET Measured(i0, d, cash_flows, discounted_flows, npv, payback, dpayback) ==
            IF Raised(payback) THEN payback
            ELSE IF Raised(dpayback) THEN dpayback
            ELSE IF RIsZero(i0) THEN Raise("ZeroDivisionError")
            ELSE [initial_investment |-> i0,
                  discount_rate |-> d,
                  cash_flows |-> cash_flows,
                  discounted_flows |-> discounted_flows,
                  npv |-> npv,
                  irr |-> calculate_irr(i0, cash_flows, solved),
                  payback_period |-> payback.value,
                  discounted_payback |-> dpayback.value,
                  profitability_index |-> InvProfitabilityIndex(npv, i0)]
        Discounted(i0, d, cash_flows, discounted_flows) ==
            Measured(i0, d, cash_flows, discounted_flows,
                     InvNpv(i0, cash_flows, d),
                     calculate_payback_period(i0, cash_flows),
                     calculate_discounted_payback(i0, discounted_flows))
        Flowing(i0, d, cash_flows) ==
            IF Len(cash_flows) >= 1 /\ RIsZero(RAdd(One, d)) THEN Raise("ZeroDivisionError")
            ELSE Discounted(i0, d, cash_flows,
                            [t \in 1..Len(cash_flows) |-> InvDiscountedFlow(cash_flows, d, t)])
        Read(i0, d, life, given, u) ==
            IF ~IsNum(i0) \/ ~IsNum(d) \/ ~IsNum(life) THEN Raise("ValueError")
            ELSE IF given = <<>> /\ ~IsNum(u) THEN Raise("ValueError")
            ELSE Flowing(i0, d, IF given # <<>> THEN given ELSE [t \in 1..ToInt(life) |-> u])
    IN  Read(Get(p, "investissement_initial", RInt(DefaultInvestissement)),
             Get(p, "taux_actualisation", Pct(10)),
             Get(p, "duree_vie", RInt(5)),
             Get(p, "flux_annuels", <<>>),
             Get(p, "flux_uniforme", RInt(DefaultFluxUniforme)))

\* Lines 161-176.
InvFinish(core, sensitivity) ==
    [investissement_initial |-> core.initial_investment,
     flux_actualises |-> core.discounted_flows,
     van |-> RRound(core.npv, 0),
     tir |-> InvTir(core.irr),
     delai_recuperation |-> RRound(core.payback_period, 2),
     delai_recuperation_actualise |-> RRound(core.discounted_payback, 2),
     indice_profitabilite |-> RRound(core.profitability_index, 3),
     analyse_sensibilite |-> sensitivity,
     decision |-> InvDecision(core.npv, core.irr, core.discount_rate, core.profitability_index),
     recommandations |-> InvRecommendations(core.npv, core.irr, core.payback_period,
                                            core.profitability_index, core.discount_rate)]

(***************************************************************************)
(* _investment_sensitivity_analysis                                        *)
(***************************************************************************)
InvScenarios(params) ==
    [i \in 1..5 |->
        [axis |-> "taux_actualisation",
         delta |-> SweepDeltas[i],
         params |-> [k \in DOMAIN params \cup {"taux_actualisation"} |->
                        IF k = "taux_actualisation"
                        THEN RAdd(Get(params, "taux_actualisation", Pct(10)), SweepDeltas[i])
                        ELSE params[k]]]]

InvSweepEntry(scenario, result, base_npv) ==
    IF "van" \notin DOMAIN result THEN [entries |-> <<>>]
    ELSE [entries |->
            <<[scenario |-> scenario.delta,
               van |-> result.van,
               variation_van |-> RSub(result.van, base_npv)]>>]


(***************************************************************************)
(* calculate_black_scholes.  The normal distribution is not computed: a    *)
(* price or a Greek is the term naming the formula and its arguments, and  *)
(* `finite` tells whether numpy evaluates d1, d2 to finite numbers.        *)
(***************************************************************************)
NotAString == "<number>"

Lower(t) ==
    CASE t \in {"call", "CALL", "Call"} -> "call"
      [] t \in {"put", "PUT", "Put"} -> "put"
      [] OTHER -> t

\* Lines 241-265.
BsCore(p) ==
    LET Read(S, K, T, r, sigma, option_type) ==
            IF \E v \in {S, K, T, r, sigma} : ~IsNum(v) THEN Raise("ValueError")
            ELSE IF RIsZero(K) THEN Raise("ZeroDivisionError")
            ELSE IF option_type = NotAString THEN Raise("AttributeError")
            ELSE [S |-> S, K |-> K, T |-> T, r |-> r, sigma |-> sigma,
                  option_type |-> option_type,
                  branch |-> IF Lower(option_type) = "call" THEN "call" ELSE "put",
                  finite |-> RSign(S) * RSign(K) > 0 /\ RSign(T) > 0 /\ ~RIsZero(sigma)]
    IN  Read(Get(p, "prix_actif", RInt(100)),
             Get(p, "prix_exercice", RInt(100)),
             Get(p, "temps_echeance", One),
             Get(p, "taux_sans_risque", Pct(5)),
             Get(p, "volatilite", Pct(20)),
             Get(p, "type_option", "call"))

BsMoneyness(S, K, option_type) ==
    IF (RLt(K, S) /\ option_type = "call") \/ (RLt(S, K) /\ option_type = "put")
    THEN "ITM" ELSE "OTM"

\* Lines 259-265: theta and rho as the signs of their terms and the argument
\* of the normal distribution function they use.
\*   theta = -S*pdf(d1)*sigma/(2*sqrt(T)) - r*K*exp(-rT)*cdf(d2 or -d2)
\*   rho   = K*T*exp(-rT)*cdf(d2 or -d2)
BsGreeks(core) ==
    LET Of(x) == [theta |-> [decay |-> -1, carry |-> -1, cdf |-> x],
                  rho |-> [sign |-> 1, cdf |-> x]]
    IN  Of(IF core.branch = "call" THEN "d2" ELSE "-d2")

\* Lines 270-292.
BsFinish(core, sensitivity) ==
    [prix_option |-> [formula |-> core.branch, S |-> core.S, K |-> core.K, T |-> core.T,
                      r |-> core.r, sigma |-> core.sigma, finite |-> core.finite],
     type_option |-> core.option_type,
     greeks_of |-> core.branch,
     grecques |-> BsGreeks(core),
     finite |-> core.finite,
     analyse_sensibilite |-> sensitivity,
     moneyness |-> BsMoneyness(core.S, core.K, core.option_type)]

(***************************************************************************)
(* _black_scholes_sensitivity: the base re-pricing, then the two sweeps.   *)
(***************************************************************************)
BsFactors == <<Rat(9, 10), Rat(95, 100), One, Rat(105, 100), Rat(11, 10),
               Rat(8, 10), Rat(9, 10), One, Rat(11, 10), Rat(12, 10)>>

BsScenarios(core) ==
    LET Shifted(base_params) ==
            [i \in 1..11 |->
               IF i = 1 THEN [axis |-> "base", delta |-> One, params |-> base_params]
               ELSE IF i <= 6
               THEN [axis |-> "prix_actif", delta |-> BsFactors[i - 1],
                     params |-> [base_params EXCEPT
                                   !.prix_actif = RMul(core.S, BsFactors[i - 1])]]
               ELSE [axis |-> "volatilite", delta |-> BsFactors[i - 1],
                     params |-> [base_params EXCEPT
                                   !.volatilite = RMul(core.sigma, BsFactors[i - 1])]]]
    IN  Shifted([prix_actif |-> core.S, prix_exercice |-> core.K,
                 temps_echeance |-> core.T, taux_sans_risque |-> core.r,
                 volatilite |-> core.sigma, type_option |-> core.option_type])

\* A sweep that reads the price with result.get('prix_option'), so that a
\* re-pricing answered with an error mapping does not stop it.
BsSweepEntryTolerant(scenario, result, base_price) ==
    LET Priced(price) ==
            IF scenario.axis = "base" THEN [entries |-> <<>>, base |-> price]
            ELSE [entries |-> <<[scenario |-> scenario.delta,
                                 prix_option |-> price,
                                 variation_from |-> base_price]>>]
    IN  Priced(IF "prix_option" \in DOMAIN result THEN result.prix_option ELSE None)

\* result['prix_option'] of the mapping a re-pricing returned.
BsSweepEntry(scenario, result, base_price) ==
    IF "prix_option" \notin DOMAIN result THEN Raise("KeyError")
    ELSE IF scenario.axis = "base" THEN [entries |-> <<>>, base |-> result.prix_option]
    ELSE [entries |-> <<[scenario |-> scenario.delta,
                         prix_option |-> result.prix_option,
                         variation_from |-> base_price]>>]

(***************************************************************************)
(* The three evaluators that run a sweep, by the name of the model kind.   *)
(***************************************************************************)
SweepKinds == {"dcf", "investment_budgeting", "black_scholes"}

ErrorPrefix(kind) ==
    CASE kind = "dcf" -> "Erreur dans le calcul DCF"
      [] kind = "investment_budgeting" -> "Erreur dans l'analyse d'investissement"
      [] kind = "loan_amortization" -> "Erreur dans le calcul d'amortissement"
      [] kind = "black_scholes" -> "Erreur dans le calcul Black-Scholes"
      [] kind = "bond_pricing" -> "Erreur dans l'evaluation d'obligation"
      [] OTHER -> "Erreur dans l'analyse des ratios"

\* An evaluator without its except clause: the exception goes to the caller.
Uncaught(kind, e) == e

\* except Exception as e: return {'error': ...}
Caught(kind, e) == [error |-> <<ErrorPrefix(kind), e.exc>>]

Core(kind, p, solved) ==
    CASE kind = "dcf" -> DcfCore(p)
      [] kind = "investment_budgeting" -> InvCore(p, solved)
      [] OTHER -> BsCore(p)

Scenarios(kind, p, core) ==
    CASE kind = "dcf" -> DcfScenarios(p)
      [] kind = "investment_budgeting" -> InvScenarios(p)
      [] OTHER -> BsScenarios(core)

BaseValue(kind, core) ==
    CASE kind = "dcf" -> core.enterprise_value
      [] kind = "investment_budgeting" -> core.npv
      [] OTHER -> None

SweepEntry(kind, scenario, result, base) ==
    CASE kind = "dcf" -> DcfSweepEntry(scenario, result, base)
      [] kind = "investment_budgeting" -> InvSweepEntry(scenario, result, base)
      [] OTHER -> BsSweepEntry(scenario, result, base)

Finish(kind, core, sensitivity) ==
    CASE kind = "dcf" -> DcfFinish(core, sensitivity)
      [] kind = "investment_budgeting" -> InvFinish(core, sensitivity)
      [] OTHER -> BsFinish(core, sensitivity)



(***************************************************************************)
(* Amortization schedules.                                                 *)
(***************************************************************************)
\* payment = P * i(1+i)^n / ((1+i)^n - 1); P / n when the rate is not positive.
\* The value, or the exception of a division by zero.
ConstantPayment(loan_amount, monthly_rate, duration) ==
    LET Compounded(growth) ==
            IF RIsZero(RSub(growth, One)) THEN Raise("ZeroDivisionError")
            ELSE Some(RDiv(RMul(loan_amount, RMul(monthly_rate, growth)), RSub(growth, One)))
    IN  IF RSign(monthly_rate) > 0
        THEN Compounded(IF duration >= 0 THEN RPow(RAdd(One, monthly_rate), duration)
                        ELSE RInv(RPow(RAdd(One, monthly_rate), 0 - duration)))
        ELSE IF duration = 0 THEN Raise("ZeroDivisionError")
        ELSE Some(RDiv(loan_amount, RInt(duration)))

RECURSIVE ConstantBalance(_, _, _, _)
\* remaining_balance after `month` passes of the loop (before max and round)
ConstantBalance(loan_amount, monthly_rate, monthly_payment, month) ==
    LET Paid(before) == RSub(before, RSub(monthly_payment, RMul(before, monthly_rate)))
    IN  IF month = 0 THEN loan_amount
        ELSE Paid(ConstantBalance(loan_amount, monthly_rate, monthly_payment, month - 1))

ConstantRecord(loan_amount, monthly_rate, monthly_payment, month) ==
    LET Row(before, interest, principal) ==
            [mois |-> month,
             mensualite |-> RRound(monthly_payment, 0),
             capital |-> RRound(principal, 0),
             interets |-> RRound(interest, 0),
             capital_restant |-> RRound(RMax(Zero, RSub(before, principal)), 0)]
        Charged(before, interest) == Row(before, interest, RSub(monthly_payment, interest))
        Owed(before) == Charged(before, RMul(before, monthly_rate))
    IN  Owed(ConstantBalance(loan_amount, monthly_rate, monthly_payment, month - 1))

generate_constant_amortization_schedule(loan_amount, monthly_rate, duration, monthly_payment) ==
    [month \in 1..duration |-> ConstantRecord(loan_amount, monthly_rate, monthly_payment, month)]

\* A linear schedule that charges interest on the whole loan every month.
LinearRecordFlat(loan_amount, monthly_rate, duration, month) ==
    LET Row(monthly_principal, before, interest) ==
            [mois |-> month,
             mensualite |-> RRound(RAdd(monthly_principal, interest), 0),
             capital |-> RRound(monthly_principal, 0),
             interets |-> RRound(interest, 0),
             capital_restant |-> RRound(RMax(Zero, RSub(before, monthly_principal)), 0)]
        Owed(monthly_principal, before) ==
            Row(monthly_principal, before, RMul(loan_amount, monthly_rate))
        Split(monthly_principal) ==
            Owed(monthly_principal,
                 RSub(loan_amount, RMul(RInt(month - 1), monthly_principal)))
    IN  Split(RDiv(loan_amount, RInt(duration)))

LinearRecord(loan_amount, monthly_rate, duration, month) ==
    LET Row(monthly_principal, before, interest) ==
            [mois |-> month,
             mensualite |-> RRound(RAdd(monthly_principal, interest), 0),
             capital |-> RRound(monthly_principal, 0),
             interets |-> RRound(interest, 0),
             capital_restant |-> RRound(RMax(Zero, RSub(before, monthly_principal)), 0)]
        Owed(monthly_principal, before) ==
            Row(monthly_principal, before, RMul(before, monthly_rate))
        Split(monthly_principal) ==
            Owed(monthly_principal,
                 RSub(loan_amount, RMul(RInt(month - 1), monthly_principal)))
    IN  Split(RDiv(loan_amount, RInt(duration)))

\* The schedule, or the exception of loan_amount / duration.
generate_linear_amortization_schedule(loan_amount, monthly_rate, duration) ==
    IF duration = 0 THEN Raise("ZeroDivisionError")
    ELSE [list |-> [month \in 1..duration |->
                       LinearRecord(loan_amount, monthly_rate, duration, month)]]

InFineRecord(loan_amount, monthly_rate, duration, month) ==
    LET Row(monthly_interest, last) ==
            [mois |-> month,
             mensualite |-> RRound(IF last THEN RAdd(monthly_interest, loan_amount)
                                   ELSE monthly_interest, 0),
             capital |-> RRound(IF last THEN loan_amount ELSE Zero, 0),
             interets |-> RRound(monthly_interest, 0),
             capital_restant |-> RRound(IF last THEN Zero ELSE loan_amount, 0)]
    IN  Row(RMul(loan_amount, monthly_rate), month = duration)

generate_in_fine_amortization_schedule(loan_amount, monthly_rate, duration) ==
    [month \in 1..duration |-> InFineRecord(loan_amount, monthly_rate, duration, month)]

RECURSIVE SumField(_, _, _)
\* sum(record[field] for record in schedule[:n])
SumField(schedule, field, n) ==
    IF n = 0 THEN Zero ELSE RAdd(SumField(schedule, field, n - 1), schedule[n][field])

\* constant_total_interest = (constant_payment * duration) - loan_amount
ConstantTotalInterest(loan_amount, constant_payment, duration) ==
    RSub(RMul(constant_payment, RInt(duration)), loan_amount)

\* linear_total_interest = loan_amount * monthly_rate * (duration + 1) / 2
LinearTotalInterest(loan_amount, monthly_rate, duration) ==
    RDiv(RMul(RMul(loan_amount, monthly_rate), RInt(duration + 1)), RInt(2))

\* in_fine_total_interest = loan_amount * monthly_rate * duration
InFineTotalInterest(loan_amount, monthly_rate, duration) ==
    RMul(RMul(loan_amount, monthly_rate), RInt(duration))

\* _compare_amortization_types: the mapping, or the exception raised.
compare_amortization_types(loan_amount, annual_rate, duration) ==
    LET Table(monthly_rate, constant_payment, constant_total_interest,
              linear_total_interest, in_fine_total_interest) ==
            [constant |->
                [mensualite |-> RRound(constant_payment, 0),
                 total_interets |-> RRound(constant_total_interest, 0),
                 cout_total |-> RRound(RAdd(loan_amount, constant_total_interest), 0)],
             lineaire |->
                [mensualite_initiale |->
                    RRound(RAdd(RDiv(loan_amount, RInt(duration)),
                                RMul(loan_amount, monthly_rate)), 0),
                 total_interets |-> RRound(linear_total_interest, 0),
                 cout_total |-> RRound(RAdd(loan_amount, linear_total_interest), 0)],
             in_fine |->
                [mensualite_interets |-> RRound(RMul(loan_amount, monthly_rate), 0),
                 total_interets |-> RRound(in_fine_total_interest, 0),
                 cout_total |-> RRound(RAdd(loan_amount, in_fine_total_interest), 0)]]
        Compared(monthly_rate, constant_payment) ==
            IF Raised(constant_payment) THEN constant_payment
            ELSE IF duration = 0 THEN Raise("ZeroDivisionError")
            ELSE Table(monthly_rate, constant_payment.value,
                       ConstantTotalInterest(loan_amount, constant_payment.value, duration),
                       LinearTotalInterest(loan_amount, monthly_rate, duration),
                       InFineTotalInterest(loan_amount, monthly_rate, duration))
        Monthly(monthly_rate) ==
            Compared(monthly_rate, ConstantPayment(loan_amount, monthly_rate, duration))
    IN  Monthly(RDiv(annual_rate, RInt(12)))

(***************************************************************************)
(* calculate_loan_amortization                                             *)
(***************************************************************************)
DefaultMontantPret == 1000000

DefaultDureeMois == 60

FirstYear == 12

\* schedule[:12]
Delivered(schedule) ==
    SubSeq(schedule, 1, IF Len(schedule) < FirstYear THEN Len(schedule) ELSE FirstYear)

\* Lines 193-210: the schedule of the chosen policy and the first payment.
LoanSchedule(loan_amount, monthly_rate, duration, amortization_type) ==
    LET Constant(pay) ==
            IF Raised(pay) THEN pay
            ELSE [schedule |-> generate_constant_amortization_schedule(
                                   loan_amount, monthly_rate, duration, pay.value),
                  monthly_payment |-> pay.value]
        Linear(sch) ==
            IF Raised(sch) THEN sch
            ELSE IF sch.list = <<>> THEN Raise("IndexError")
            ELSE [schedule |-> sch.list, monthly_payment |-> sch.list[1].mensualite]
        InFine(sch) ==
            IF sch = <<>> THEN Raise("IndexError")
            ELSE [schedule |-> sch, monthly_payment |-> sch[1].mensualite]
    IN  IF amortization_type = "constant"
        THEN Constant(ConstantPayment(loan_amount, monthly_rate, duration))
        ELSE IF amortization_type = "lineaire"
        THEN Linear(generate_linear_amortization_schedule(loan_amount, monthly_rate, duration))
        ELSE InFine(generate_in_fine_amortization_schedule(loan_amount, monthly_rate, duration))

\* The tags of the entries of _generate_loan_recommendations (loan_amount # 0).
generate_loan_recommendations(amortization_type, total_interest, monthly_payment, loan_amount) ==
    LET Advised(payment_to_income_ratio) ==
            <<"type", "cout_total">>
            \o (IF amortization_type = "constant" THEN <<"mensualites_constantes">>
                ELSE IF amortization_type = "lineaire" THEN <<"interets_degressifs">>
                ELSE <<"capital_en_fin">>)
            \o (IF RLt(Pct(33), payment_to_income_ratio) THEN <<"verifier_33_pourcent">>
                ELSE <<>>)
    IN  Advised(RDiv(RMul(monthly_payment, RInt(12)), RMul(loan_amount, Rat(1, 10))))

\* Lines 186-191: the parameters read, before conversion.
LoanParams(p) ==
    [loan_amount |-> Get(p, "montant_pret", RInt(DefaultMontantPret)),
     annual_rate |-> Get(p, "taux_interet", Pct(5)),
     months      |-> Get(p, "duree_mois", RInt(DefaultDureeMois)),
     amortization_type |-> Get(p, "type_amortissement", "constant")]

\* Lines 186-231: the mapping built, or the exception raised.
LoanBody(p) ==
    LET Mapping(in, duration_months, made, total_interest, total_cost, comparison) ==
            IF Raised(comparison) THEN comparison
            ELSE IF RIsZero(in.loan_amount) \/ duration_months = 0
                 THEN Raise("ZeroDivisionError")
            ELSE IF RIsZero(total_cost) /\ duration_months < 0 THEN Raise("ZeroDivisionError")
            ELSE IF RSign(total_cost) * RSign(in.loan_amount) < 0
                    /\ 12 % Abs(duration_months) # 0
                 THEN Raise("TypeError")   \* negative ** fraction is complex; round(complex)
            ELSE [montant_pret |-> in.loan_amount,
                  taux_annuel |-> RMul(in.annual_rate, RInt(100)),
                  duree_mois |-> duration_months,
                  type_amortissement |-> in.amortization_type,
                  mensualite_initiale |-> RRound(made.monthly_payment, 0),
                  total_interets |-> RRound(total_interest, 0),
                  cout_total |-> RRound(total_cost, 0),
                  tableau_amortissement |-> Delivered(made.schedule),
                  tableau_complet_disponible |-> TRUE,
                  taux_effectif_global |->
                      [base |-> RDiv(total_cost, in.loan_amount), per_year |-> 12,
                       months |-> duration_months],
                  comparaison_types |-> comparison,
                  recommandations |-> generate_loan_recommendations(
                      in.amortization_type, total_interest, made.monthly_payment,
                      in.loan_amount)]
        Totalled(in, duration_months, made, total_interest) ==
            Mapping(in, duration_months, made, total_interest,
                    RAdd(in.loan_amount, total_interest),
                    compare_amortization_types(in.loan_amount, in.annual_rate,
                                               duration_months))
        Scheduled(in, duration_months, made) ==
            IF Raised(made) THEN made
            ELSE Totalled(in, duration_months, made,
                          SumField(made.schedule, "interets", Len(made.schedule)))
        Read(in) ==
            IF ~IsNum(in.loan_amount) \/ ~IsNum(in.annual_rate) \/ ~IsNum(in.months)
            THEN Raise("ValueError")
            ELSE Scheduled(in, ToInt(in.months),
                           LoanSchedule(in.loan_amount, RDiv(in.annual_rate, RInt(12)),
                                        ToInt(in.months), in.amortization_type))
    IN  Read(LoanParams(p))

\* try: ... except Exception as e: return {'error': ...}
calculate_loan_amortization(p) ==
    LET Try(body) == IF Raised(body) THEN Caught("loan_amortization", body) ELSE body
    IN  Try(LoanBody(p))

(***************************************************************************)
(* calculate_bond_pricing                                                  *)
(***************************************************************************)
DefaultValeurNominale == 1000

ScheduleShown == 10

\* cash_flow = coupon if period < periods else coupon + face_value
BondCashFlow(face_value, coupon, periods, period) ==
    IF period < periods THEN coupon ELSE RAdd(coupon, face_value)

\* A discount factor at simple interest: 1 / (1 + period * period_rate).
PvFactorSimple(period_rate, period) ==
    RInv(RAdd(One, RMul(RInt(period), period_rate)))

PvFactor(period_rate, period) == RInv(RPow(RAdd(One, period_rate), period))

RECURSIVE PvCoupons(_, _, _)
PvCoupons(coupon_payment, period_rate, n) ==
    IF n <= 0 THEN Zero
    ELSE RAdd(PvCoupons(coupon_payment, period_rate, n - 1),
              RMul(coupon_payment, PvFactor(period_rate, n)))

RECURSIVE PvWeighted(_, _, _, _, _, _, _)
\* The three sums of the loops of _calculate_duration and _calculate_convexity.
PvWeighted(what, face_value, coupon, period_rate, frequency, periods, n) ==
    IF n <= 0 THEN Zero
    ELSE RAdd(PvWeighted(what, face_value, coupon, period_rate, frequency, periods, n - 1),
              RMul(CASE what = "price" -> One
                     [] what = "time" -> Rat(n, frequency)
                     [] OTHER -> Rat(n * (n + 1), frequency * frequency),
                   RMul(BondCashFlow(face_value, coupon, periods, n),
                        PvFactor(period_rate, n))))

calculate_duration(face_value, coupon, period_rate, frequency, periods) ==
    LET Weighted(bond_price) ==
            IF RSign(bond_price) > 0
            THEN RDiv(PvWeighted("time", face_value, coupon, period_rate, frequency,
                                 periods, periods),
                      bond_price)
            ELSE Zero
    IN  Weighted(PvWeighted("price", face_value, coupon, period_rate, frequency,
                            periods, periods))

calculate_convexity(face_value, coupon, period_rate, frequency, periods) ==
    LET Weighted(bond_price) ==
            IF RSign(bond_price) > 0
            THEN RDiv(PvWeighted("convexity", face_value, coupon, period_rate, frequency,
                                 periods, periods),
                      RMul(bond_price, RPow(RAdd(One, period_rate), 2)))
            ELSE Zero
    IN  Weighted(PvWeighted("price", face_value, coupon, period_rate, frequency,
                            periods, periods))

\* ytm_function(rate): the price at `rate` less the current price.
ytm_function(face_value, coupon, frequency, periods, current_price, rate) ==
    RSub(PvWeighted("price", face_value, coupon, RDiv(rate, RInt(frequency)), frequency,
                    periods, periods),
         current_price)

\* What fsolve may hand back to _calculate_ytm: any number, or a failure.
YtmOutcomes == {Some(Pct(10)), Some(Pct(8)), Some(Rat(3, 2)), Raise("RuntimeError")}

\* return ytm if 0 <= ytm <= 1 else coupon_rate; except: return coupon_rate
calculate_ytm(coupon_rate, solved) ==
    IF Raised(solved) THEN coupon_rate
    ELSE IF RLe(Zero, solved.value) /\ RLe(solved.value, One) THEN solved.value
    ELSE coupon_rate

BondCoupon(period, frequency, coupon_payment, period_rate) ==
    LET Row(pv_factor) ==
            [periode |-> period,
             date_relative |-> RRound(Rat(period, frequency), 2),
             coupon |-> RRound(coupon_payment, 2),
             facteur_actualisation |-> RRound(pv_factor, 6),
             valeur_actuelle |-> RRound(RMul(coupon_payment, pv_factor), 2)]
    IN  Row(PvFactor(period_rate, period))

\* The tags of the entries of _generate_bond_recommendations (face_value # 0).
generate_bond_recommendations(bond_price, face_value, duration, ytm, market_rate) ==
    LET Advised(premium_discount, yield_spread) ==
            (IF RLt(RInt(5), premium_discount) THEN <<"prime">>
             ELSE IF RLt(premium_discount, RInt(-5)) THEN <<"escompte">>
             ELSE <<"pair">>)
            \o (IF RLt(RInt(7), duration) THEN <<"duration_elevee">>
                ELSE IF RLt(duration, RInt(3)) THEN <<"duration_faible">>
                ELSE <<>>)
            \o (IF RLt(Rat(1, 2), RAbs(yield_spread)) THEN <<"ecart_rendement">> ELSE <<>>)
            \o <<"rendement">>
    IN  Advised(RMul(RSub(RDiv(bond_price, face_value), One), RInt(100)),
                RMul(RSub(ytm, market_rate), RInt(100)))

\* Lines 302-364: the mapping built, or the exception raised.
BondBody(p, solved) ==
    LET Mapping(in, frequency, coupon_payment, period_rate, pv_coupons, pv_principal,
                bond_price, duration, convexity, ytm, shown) ==
            IF RIsZero(in.face_value) THEN Raise("ZeroDivisionError")
            ELSE [prix_obligation |-> RRound(bond_price, 2),
                  valeur_nominale |-> in.face_value,
                  valeur_actuelle_coupons |-> RRound(pv_coupons, 2),
                  valeur_actuelle_principal |-> RRound(pv_principal, 2),
                  taux_coupon |-> RMul(in.coupon_rate, RInt(100)),
                  taux_marche |-> RMul(in.market_rate, RInt(100)),
                  echeance_annees |-> in.years_to_maturity,
                  duration |-> RRound(duration, 2),
                  duration_modifiee |-> RRound(RDiv(duration, RAdd(One, period_rate)), 2),
                  convexite |-> RRound(convexity, 2),
                  rendement_echeance |-> RRoundPct(ytm, 2),
                  calendrier_coupons |->
                      [period \in 1..shown |->
                          BondCoupon(period, frequency, coupon_payment, period_rate)],
                  analyse_risque |->
                      [sensibilite_taux |->
                          RRound(RMul(RMul(RNeg(duration), Pct(1)), bond_price), 2)],
                  recommandations |->
                      generate_bond_recommendations(bond_price, in.face_value, duration, ytm,
                                                    in.market_rate)]
        Priced(in, frequency, periods, coupon_payment, period_rate, pv_coupons, pv_principal) ==
            Mapping(in, frequency, coupon_payment, period_rate, pv_coupons, pv_principal,
                    RAdd(pv_coupons, pv_principal),
                    calculate_duration(in.face_value, coupon_payment, period_rate,
                                       frequency, periods),
                    calculate_convexity(in.face_value, coupon_payment, period_rate,
                                        frequency, periods),
                    calculate_ytm(in.coupon_rate, solved),
                    IF periods < ScheduleShown THEN periods ELSE ScheduleShown)
        Periodic(in, frequency, periods, coupon_payment, period_rate) ==
            IF RIsZero(RAdd(One, period_rate)) THEN Raise("ZeroDivisionError")
            ELSE Priced(in, frequency, periods, coupon_payment, period_rate,
                        PvCoupons(coupon_payment, period_rate, periods),
                        RDiv(in.face_value,
                             IF periods >= 0 THEN RPow(RAdd(One, period_rate), periods)
                             ELSE RInv(RPow(RAdd(One, period_rate), 0 - periods))))
        Counted(in, frequency) ==
            IF frequency = 0 THEN Raise("ZeroDivisionError")
            ELSE Periodic(in, frequency,
                          ToInt(RMul(in.years_to_maturity, RInt(frequency))),
                          RDiv(RMul(in.coupon_rate, in.face_value), RInt(frequency)),
                          RDiv(in.market_rate, RInt(frequency)))
        Read(in) ==
            IF \E k \in DOMAIN in : ~IsNum(in[k]) THEN Raise("ValueError")
            ELSE Counted(in, ToInt(in.freq))
    IN  Read([face_value  |-> Get(p, "valeur_nominale", RInt(DefaultValeurNominale)),
              coupon_rate |-> Get(p, "taux_coupon", Pct(5)),
              market_rate |-> Get(p, "taux_marche", Pct(6)),
              years_to_maturity |-> Get(p, "echeance", RInt(5)),
              freq |-> Get(p, "frequence_paiement", RInt(2))])

calculate_bond_pricing(p, solved) ==
    LET Try(body) == IF Raised(body) THEN Caught("bond_pricing", body) ELSE body
    IN  Try(BondBody(p, solved))

(***************************************************************************)
(* calculate_financial_ratios                                              *)
(***************************************************************************)
DaysPerYear == 365

\* numerator / divisor if divisor > 0 else 0
Quotient(numerator, divisor) ==
    IF RSign(divisor) > 0 THEN RDiv(numerator, divisor) ELSE Zero

RatioDefaults ==
    [actif_total |-> 1000000, actif_circulant |-> 400000, tresorerie |-> 100000,
     stocks |-> 150000, creances |-> 150000, passif_total |-> 600000,
     passif_circulant |-> 200000, dettes_long_terme |-> 400000,
     chiffre_affaires |-> 2000000, benefice_brut |-> 800000,
     benefice_exploitation |-> 200000, benefice_net |-> 100000,
     charges_financieres |-> 50000]

RatioInput(p, k) == Get(p, k, RInt(RatioDefaults[k]))

\* Lines 394-447: the ratios mapping.
RatioTable(p) ==
    LET Table(total_assets, current_assets, cash, inventory, total_liabilities,
              current_liabilities, equity, revenue, gross_profit, operating_profit,
              net_income, interest_expense, asset_turnover, inventory_turnover,
              receivables_turnover, net_margin) ==
            [liquidite |->
                [ratio_liquidite_generale |->
                     RRound(Quotient(current_assets, current_liabilities), 2),
                 ratio_liquidite_reduite |->
                     RRound(Quotient(RSub(current_assets, inventory), current_liabilities), 2),
                 ratio_liquidite_immediate |-> RRound(Quotient(cash, current_liabilities), 2)],
             activite |->
                [rotation_actif |-> RRound(asset_turnover, 2),
                 rotation_stocks |-> RRound(inventory_turnover, 2),
                 rotation_creances |-> RRound(receivables_turnover, 2),
                 duree_stocks_jours |->
                     IF RSign(inventory_turnover) > 0
                     THEN RRound(RDiv(RInt(DaysPerYear), inventory_turnover), 0) ELSE Zero,
                 duree_creances_jours |->
                     IF RSign(receivables_turnover) > 0
                     THEN RRound(RDiv(RInt(DaysPerYear), receivables_turnover), 0) ELSE Zero],
             endettement |->
                [ratio_endettement |-> RRound(Quotient(total_liabilities, total_assets), 2),
                 ratio_dette_capitaux |-> RRound(Quotient(total_liabilities, equity), 2),
                 ratio_autonomie |-> RRound(Quotient(equity, total_assets), 2),
                 couverture_interets |->
                     RRound(Quotient(operating_profit, interest_expense), 2)],
             rentabilite |->
                [marge_brute |-> RRoundPct(Quotient(gross_profit, revenue), 1),
                 marge_exploitation |-> RRoundPct(Quotient(operating_profit, revenue), 1),
                 marge_nette |-> RRoundPct(net_margin, 1),
                 rentabilite_actif |-> RRoundPct(Quotient(net_income, total_assets), 1),
                 rentabilite_capitaux |-> RRoundPct(Quotient(net_income, equity), 1),
                 dupont_roe |->
                     RRoundPct(IF RSign(equity) > 0
                               THEN RMul(RMul(net_margin, asset_turnover),
                                         RDiv(total_assets, equity))
                               ELSE Zero, 1)]]
        Read(total_assets, current_assets, cash, inventory, receivables, total_liabilities,
             current_liabilities, revenue, gross_profit, operating_profit, net_income,
             interest_expense) ==
            Table(total_assets, current_assets, cash, inventory, total_liabilities,
                  current_liabilities, RSub(total_assets, total_liabilities), revenue,
                  gross_profit, operating_profit, net_income, interest_expense,
                  Quotient(revenue, total_assets),
                  Quotient(RMul(revenue, Rat(7, 10)), inventory),
                  Quotient(revenue, receivables),
                  Quotient(net_income, revenue))
    IN  Read(RatioInput(p, "actif_total"), RatioInput(p, "actif_circulant"),
             RatioInput(p, "tresorerie"), RatioInput(p, "stocks"),
             RatioInput(p, "creances"), RatioInput(p, "passif_total"),
             RatioInput(p, "passif_circulant"), RatioInput(p, "chiffre_affaires"),
             RatioInput(p, "benefice_brut"), RatioInput(p, "benefice_exploitation"),
             RatioInput(p, "benefice_net"), RatioInput(p, "charges_financieres"))

\* A dimension whose thresholds are exclusive: a value on a threshold falls one
\* tier lower.
TierExclusive(value, tiers, praised, weakness) ==
    IF RLt(tiers[1], value)
    THEN [score |-> 20, forces |-> 1, faiblesses |-> <<>>]
    ELSE IF RLt(tiers[2], value)
    THEN [score |-> 15, forces |-> IF praised = 2 THEN 1 ELSE 0, faiblesses |-> <<>>]
    ELSE IF RLt(tiers[3], value)
    THEN [score |-> 10, forces |-> 0, faiblesses |-> <<>>]
    ELSE [score |-> 0, forces |-> 0, faiblesses |-> <<weakness>>]

\* One dimension of _analyze_financial_ratios: the points and the lists it feeds.
\* `tiers` are the thresholds of 20, 15 and 10 points; `praised` the tiers that
\* add a strength.
Tier(value, tiers, praised, weakness) ==
    IF RLe(tiers[1], value)
    THEN [score |-> 20, forces |-> 1, faiblesses |-> <<>>]
    ELSE IF RLe(tiers[2], value)
    THEN [score |-> 15, forces |-> IF praised = 2 THEN 1 ELSE 0, faiblesses |-> <<>>]
    ELSE IF RLe(tiers[3], value)
    THEN [score |-> 10, forces |-> 0, faiblesses |-> <<>>]
    ELSE [score |-> 0, forces |-> 0, faiblesses |-> <<weakness>>]

\* An analysis without the two general recommendations of lines 963-965.
analyze_financial_ratios_bare(ratios) ==
    LET Listed(liquidity, leverage, profitability, activity, coverage, weak) ==
            [forces |-> liquidity.forces + leverage.forces + profitability.forces
                        + activity.forces + coverage.forces,
             faiblesses |-> weak,
             recommandations |-> weak,
             score_global |->
                 RRound(RMul(Rat(liquidity.score + leverage.score + profitability.score
                                 + activity.score + coverage.score, 100), RInt(100)), 0),
             sub_scores |-> <<liquidity.score, leverage.score, profitability.score,
                              activity.score, coverage.score>>]
        Judged(liquidity, leverage, profitability, activity, coverage) ==
            Listed(liquidity, leverage, profitability, activity, coverage,
                   liquidity.faiblesses \o leverage.faiblesses \o profitability.faiblesses
                   \o activity.faiblesses \o coverage.faiblesses)
    IN  Judged(Tier(ratios.liquidite.ratio_liquidite_generale,
                    <<Rat(3, 2), Rat(6, 5), One>>, 2, "liquidite"),
               \* debt_ratio <= 0.3 / 0.6 / 0.8, and only the first tier is praised
               Tier(RNeg(ratios.endettement.ratio_endettement),
                    <<Rat(-3, 10), Rat(-3, 5), Rat(-4, 5)>>, 1, "endettement"),
               Tier(RDiv(ratios.rentabilite.rentabilite_capitaux, RInt(100)),
                    <<Pct(15), Pct(10), Pct(5)>>, 2, "rentabilite"),
               Tier(ratios.activite.rotation_actif,
                    <<Rat(3, 2), One, Rat(1, 2)>>, 2, "rotation"),
               Tier(ratios.endettement.couverture_interets,
                    <<RInt(5), Rat(5, 2), Rat(3, 2)>>, 2, "couverture"))

\* Lines 876-969.
analyze_financial_ratios(ratios) ==
    LET Listed(liquidity, leverage, profitability, activity, coverage, weak) ==
            [forces |-> liquidity.forces + leverage.forces + profitability.forces
                        + activity.forces + coverage.forces,
             faiblesses |-> weak,
             recommandations |-> IF weak = <<>> THEN <<"maintenir", "surveiller">> ELSE weak,
             score_global |->
                 RRound(RMul(Rat(liquidity.score + leverage.score + profitability.score
                                 + activity.score + coverage.score, 100), RInt(100)), 0),
             sub_scores |-> <<liquidity.score, leverage.score, profitability.score,
                              activity.score, coverage.score>>]
        Judged(liquidity, leverage, profitability, activity, coverage) ==
            Listed(liquidity, leverage, profitability, activity, coverage,
                   liquidity.faiblesses \o leverage.faiblesses \o profitability.faiblesses
                   \o activity.faiblesses \o coverage.faiblesses)
    IN  Judged(Tier(ratios.liquidite.ratio_liquidite_generale,
                    <<Rat(3, 2), Rat(6, 5), One>>, 2, "liquidite"),
               \* debt_ratio <= 0.3 / 0.6 / 0.8, and only the first tier is praised
               Tier(RNeg(ratios.endettement.ratio_endettement),
                    <<Rat(-3, 10), Rat(-3, 5), Rat(-4, 5)>>, 1, "endettement"),
               Tier(RDiv(ratios.rentabilite.rentabilite_capitaux, RInt(100)),
                    <<Pct(15), Pct(10), Pct(5)>>, 2, "rentabilite"),
               Tier(ratios.activite.rotation_actif,
                    <<Rat(3, 2), One, Rat(1, 2)>>, 2, "rotation"),
               Tier(ratios.endettement.couverture_interets,
                    <<RInt(5), Rat(5, 2), Rat(3, 2)>>, 2, "couverture"))

RatioBody(p) ==
    LET Mapping(ratios, analysis) ==
            [ratios |-> ratios,
             analyse |-> analysis,
             forces |-> analysis.forces,
             faiblesses |-> analysis.faiblesses,
             recommandations |-> analysis.recommandations,
             score_global |-> analysis.score_global]
        Analysed(ratios) == Mapping(ratios, analyze_financial_ratios(ratios))
    IN  IF \E k \in DOMAIN RatioDefaults : ~IsNum(RatioInput(p, k)) THEN Raise("ValueError")
        ELSE Analysed(RatioTable(p))

calculate_financial_ratios(p) ==
    LET Try(body) == IF Raised(body) THEN Caught("financial_ratios", body) ELSE body
    IN  Try(RatioBody(p))

(***************************************************************************)
(* calculate_financial_model: the kinds answered in one call.              *)
(***************************************************************************)
EngineKinds == {"loan_amortization", "bond_pricing", "financial_ratios"}

PlaceholderKinds ==
    {"financial_planning", "real_estate_valuation", "lbo_analysis", "merger_analysis"}

DirectKinds == EngineKinds \cup PlaceholderKinds \cup {"unknown"}

\* The outcomes of the fsolve call an evaluation of `kind` makes.
Solver(kind) ==
    CASE kind = "investment_budgeting" -> FsolveOutcomes
      [] kind = "bond_pricing" -> YtmOutcomes
      [] OTHER -> {None}

calculate_financial_model(model_type, parameters, solved) ==
    CASE model_type = "loan_amortization" -> calculate_loan_amortization(parameters)
      [] model_type = "bond_pricing" -> calculate_bond_pricing(parameters, solved)
      [] model_type = "financial_ratios" -> calculate_financial_ratios(parameters)
      [] model_type \in PlaceholderKinds ->
            [message |-> model_type, parametres |-> parameters,
             recommandations |-> <<"en_developpement">>]
      [] OTHER -> [error |-> <<"Modele non implemente", model_type>>]

(***************************************************************************)
(* State.                                                                  *)
(*   stack        the Python call stack below the dispatcher: one frame    *)
(*                per running evaluator, one per running sweep             *)
(*   result       the mapping the last finished top-level evaluation       *)
(*                returned (NoResult while one is running or before any)   *)
(*   request      the model kind and parameters of that evaluation         *)
(*   evaluations  how many times an evaluator body was entered since the   *)
(*                top-level call started                                   *)
(*   precision    FinancialEngine.precision, the engine's only field       *)
(***************************************************************************)
VARIABLES
    stack,        \* the frames of the evaluation in progress, outermost first
    result,       \* what the last call of the dispatcher returned
    request,      \* the call the dispatcher is serving or served last
    evaluations,  \* evaluator calls made for that request
    precision,    \* FinancialEngine.precision, the one field of the engine
    failed,       \* history: some earlier call returned an error mapping
    budgeting,    \* the locals of calculate_investment_budgeting, loop by loop
    user,         \* the User row of the database
    exports,      \* the export_model requests in flight, with the row each loaded
    granted,      \* history: exports generated since the counter was last reset
    task,         \* the Task row of the database
    calculation   \* the locals of the calculate_model request

engine == <<stack, result, request, evaluations, precision, failed>>



vars == <<engine, budgeting, user, exports, granted, task, calculation>>

\* The mapping an evaluator returns from its except clause.
IsError(r) == "error" \in DOMAIN r

\* Frames the interpreter allows below the dispatcher.
RecursionLimit == 5

NoResult == [pending |-> TRUE]

NoRequest == [kind |-> "none"]

\* No investment analysis, no user row, no task row, no calculation request.
NoBudgeting == [year |-> -1]

NoUser == [account_status |-> "none"]

NoTask == [status |-> "none"]

NoCalculation == [pc |-> "none"]

Top(s) == s[Len(s)]

Pop(s, k) == SubSeq(s, 1, Len(s) - k)

IsSweepFrame(f) == "idx" \in DOMAIN f

\* The scenarios of the sweep frame on top of s, from its evaluator's frame.
ScenariosOf(s) ==
    LET Of(c) == Scenarios(c.kind, c.params, c.core) IN Of(s[Len(s) - 1])

\* The sweep frame on top of s takes the mapping its re-evaluation returned.
Receive(s, v) ==
    LET Appended(f, sc, e) ==
            IF Raised(e) THEN e
            ELSE [f EXCEPT !.idx = f.idx + 1,
                           !.out = f.out \o [i \in 1..Len(e.entries) |->
                                               [axis |-> sc.axis, entry |-> e.entries[i]]],
                           !.base = IF "base" \in DOMAIN e THEN e.base ELSE f.base]
        Scored(f, sc) == Appended(f, sc, SweepEntry(f.kind, sc, v, f.base))
        Taken(f) == Scored(f, ScenariosOf(s)[f.idx])
    IN  Taken(Top(s))

RECURSIVE Deliver(_, _)
\* An evaluator returns mapping v to the frames s of its caller.  An exception
\* in the receiving sweep leaves the sweep and is caught by the evaluator
\* that called it, which returns an error mapping to its own caller.
Deliver(s, v) ==
    LET Received(r) ==
            IF Raised(r) THEN Deliver(Pop(s, 2), Caught(Top(s).kind, r))
            ELSE [stack |-> [s EXCEPT ![Len(s)] = r], result |-> NoResult]
    IN  IF s = <<>> THEN [stack |-> <<>>, result |-> v]
        ELSE Received(Receive(s, v))

\* The frames s call the evaluator of `kind` with parameters p.
Enter(s, kind, p, solved) ==
    LET Called(core) ==
            IF Raised(core) \/ Len(s) + 1 >= RecursionLimit
            THEN Deliver(s, Caught(kind, IF Raised(core) THEN core
                                         ELSE Raise("RecursionError")))
            ELSE [stack |-> s \o <<[fn |-> kind, kind |-> kind, params |-> p, core |-> core],
                                   [fn |-> "sensitivity", kind |-> kind, idx |-> 1,
                                    base |-> BaseValue(kind, core), out |-> <<>>]>>,
                  result |-> NoResult]
    IN  IF Len(s) >= RecursionLimit
        THEN Deliver(Pop(s, 2), Caught(kind, Raise("RecursionError")))
        ELSE Called(Core(kind, p, solved))

\* The sensitivity mapping the finished sweep on top of s returns.
Sensitivity(s) ==
    LET Pick(a) == SelectSeq(Top(s).out, LAMBDA o : o.axis = a)
        Grouped(axes) == [a \in axes |-> [i \in 1..Len(Pick(a)) |-> Pick(a)[i].entry]]
        Swept(sc) == Grouped({sc[i].axis : i \in 1..Len(sc)} \ {"base"})
    IN  Swept(ScenariosOf(s))

\* The sweep on top of s is over: its evaluator builds its mapping and returns.
Leave(s) ==
    LET Back(kind, fin) ==
            Deliver(Pop(s, 2), IF Raised(fin) THEN Caught(kind, fin) ELSE fin)
    IN  Back(Top(s).kind, Finish(Top(s).kind, s[Len(s) - 1].core, Sensitivity(s)))

(***************************************************************************)
(* The parameter mappings the callers send, per model kind.                *)
(***************************************************************************)
Years == {0, 1, 2}

DcfInputs ==
    {[revenus_initiaux |-> RInt(rev), taux_croissance |-> Pct(g),
      taux_actualisation |-> Pct(d), duree_projection |-> RInt(n),
      croissance_terminale |-> Pct(tg)] :
        rev \in {1000}, g \in {5}, d \in {4, 10}, n \in Years, tg \in {2, 4, 6}}
    \cup {[revenus_initiaux |-> RInt(1000), duree_projection |-> RInt(1)],
          [revenus_initiaux |-> BadValue],
          [revenus_initiaux |-> Zero, duree_projection |-> RInt(1)],
          [revenus_initiaux |-> RInt(1000), duree_projection |-> RInt(2),
           marge_ebitda |-> Pct(1), taux_impot |-> Zero, taux_bfr |-> Zero]}

InvInputs ==
    {[investissement_initial |-> RInt(100), flux_annuels |-> <<RInt(150)>>],
     [investissement_initial |-> RInt(100), flux_annuels |-> <<RInt(100)>>,
      taux_actualisation |-> Pct(-5)],
     [investissement_initial |-> RInt(100), flux_annuels |-> <<Zero, RInt(225)>>],
     [investissement_initial |-> RInt(100), flux_annuels |-> <<RInt(200)>>],
     [investissement_initial |-> RInt(100), flux_annuels |-> <<Zero, Zero>>],
     [investissement_initial |-> One, flux_annuels |-> <<Rat(22000011, 20000000)>>],
     [investissement_initial |-> RInt(100), flux_uniforme |-> RInt(40), duree_vie |-> RInt(3)],
     [investissement_initial |-> RInt(100), flux_annuels |-> <<RInt(50), RInt(-20), RInt(100)>>],
     [investissement_initial |-> Zero, flux_annuels |-> <<RInt(10)>>],
     [investissement_initial |-> BadValue]}

BsInputs ==
    {[prix_actif |-> RInt(s), prix_exercice |-> RInt(100), temps_echeance |-> RInt(t),
      volatilite |-> Pct(v), type_option |-> ty] :
        s \in {90, 100, 110}, t \in {0, 1}, v \in {0, 20},
        ty \in {"call", "put", "CALL"}}
    \cup {[prix_actif |-> BadValue], [type_option |-> "call"],
          [prix_actif |-> RInt(100), prix_exercice |-> Zero],
          [prix_actif |-> RInt(100), type_option |-> NotAString],
          [temps_echeance |-> RInt(-1)], [volatilite |-> Pct(-20), type_option |-> "put"]}

SweepInputs(kind) ==
    CASE kind = "dcf" -> DcfInputs
      [] kind = "investment_budgeting" -> InvInputs
      [] OTHER -> BsInputs

LoanTypes == {"constant", "lineaire", "in_fine"}

LoanInputs ==
    {[montant_pret |-> RInt(P), taux_interet |-> rate, duree_mois |-> RInt(n),
      type_amortissement |-> ty] :
        P \in {100}, rate \in {Zero, RInt(12)}, n \in {0, 1, 3, 13}, ty \in LoanTypes}
    \cup {[montant_pret |-> RInt(1000), taux_interet |-> Pct(6), duree_mois |-> RInt(n),
           type_amortissement |-> ty] : n \in {1, 3}, ty \in LoanTypes}
    \cup {[montant_pret |-> BadValue],
          [montant_pret |-> Zero, taux_interet |-> Zero, duree_mois |-> RInt(2)],
          [montant_pret |-> RInt(100), taux_interet |-> Zero, duree_mois |-> RInt(-1)]}

BondInputs ==
    {[valeur_nominale |-> RInt(100), taux_coupon |-> Pct(c), taux_marche |-> Pct(10),
      echeance |-> RInt(years), frequence_paiement |-> RInt(freq)] :
        c \in {8, 10}, years \in {0, 1, 2}, freq \in {1, 2}}
    \cup {[valeur_nominale |-> BadValue],
          [valeur_nominale |-> Zero, taux_marche |-> Pct(10), echeance |-> One],
          [valeur_nominale |-> RInt(100), taux_marche |-> Pct(10), echeance |-> One,
           frequence_paiement |-> Zero],
          [valeur_nominale |-> RInt(100), taux_marche |-> Pct(10), echeance |-> One,
           frequence_paiement |-> One, prix_actuel |-> RInt(95)],
          [valeur_nominale |-> RInt(100), taux_coupon |-> Pct(10), taux_marche |-> Pct(10),
           echeance |-> Rat(3, 2), frequence_paiement |-> One],
          [valeur_nominale |-> RInt(100), taux_coupon |-> Pct(10), taux_marche |-> Pct(10),
           echeance |-> RInt(-1), frequence_paiement |-> One]}

RatioInputs ==
    {[passif_circulant |-> RInt(c), passif_total |-> RInt(l), benefice_net |-> RInt(ni),
      chiffre_affaires |-> RInt(r)] :
        c \in {0, 200000}, l \in {200000, 600000, 1200000},
        ni \in {-100000, 100000}, r \in {0, 2000000}}
    \cup {[actif_total |-> BadValue], [stocks |-> Zero, charges_financieres |-> Zero]}
    \cup {[actif_circulant |-> RInt(a), passif_total |-> RInt(l)] :
             a \in {200000, 250000, 299200}, l \in {600000, 900000}}

DirectInputs(kind) ==
    CASE kind = "loan_amortization" -> LoanInputs
      [] kind = "bond_pricing" -> BondInputs
      [] kind = "financial_ratios" -> RatioInputs
      [] OTHER -> {[montant |-> BadValue], [montant |-> One]}

(***************************************************************************)
(* Actions.                                                                *)
(***************************************************************************)
Init ==
    /\ stack = <<>>
    /\ result = NoResult
    /\ request = NoRequest
    /\ evaluations = 0
    /\ precision = 6
    /\ failed = FALSE
    /\ budgeting = NoBudgeting
    /\ user = NoUser
    /\ exports = <<>>
    /\ granted = 0
    /\ task = NoTask
    /\ calculation = NoCalculation

\* calculate_financial_model(kind, p) for a kind whose evaluator runs a sweep.
EvaluateSweepKind ==
    /\ stack = <<>>
    /\ result = NoResult
    /\ \E kind \in SweepKinds : \E p \in SweepInputs(kind) : \E solved \in Solver(kind) :
          LET Entered(n) ==
                  /\ stack' = n.stack
                  /\ result' = n.result
                  /\ request' = [kind |-> kind, params |-> p, solved |-> solved]
          IN  Entered(Enter(<<>>, kind, p, solved))
    /\ evaluations' = 1
    /\ failed' = (failed \/ IsError(result'))
    /\ UNCHANGED <<precision, budgeting, user, exports, granted, task, calculation>>

\* calculate_financial_model(kind, p) for the kinds that call nothing back.
EvaluateDirectKind ==
    /\ stack = <<>>
    /\ result = NoResult
    /\ \E kind \in DirectKinds : \E p \in DirectInputs(kind) : \E solved \in Solver(kind) :
          /\ result' = calculate_financial_model(kind, p, solved)
          /\ request' = [kind |-> kind, params |-> p, solved |-> solved]
    /\ evaluations' = 1
    /\ failed' = (failed \/ IsError(result'))
    /\ UNCHANGED <<stack, precision, budgeting, user, exports, granted, task, calculation>>

\* One pass of a sweep loop: result = self.calculate_...(new_params).
SweepStep ==
    /\ stack # <<>>
    /\ Top(stack).idx <= Len(ScenariosOf(stack))
    /\ \E solved \in Solver(Top(stack).kind) :
          LET Entered(n) ==
                  /\ stack' = n.stack
                  /\ result' = n.result
          IN  Entered(Enter(stack, Top(stack).kind,
                            ScenariosOf(stack)[Top(stack).idx].params, solved))
    /\ evaluations' = IF Len(stack) < RecursionLimit THEN evaluations + 1 ELSE evaluations
    /\ failed' = (failed \/ IsError(result'))
    /\ UNCHANGED <<request, precision, budgeting, user, exports, granted, task, calculation>>

\* The sweep returns and its evaluator returns its mapping.
SweepReturn ==
    /\ stack # <<>>
    /\ Top(stack).idx > Len(ScenariosOf(stack))
    /\ LET Left(n) ==
               /\ stack' = n.stack
               /\ result' = n.result
       IN  Left(Leave(stack))
    /\ failed' = (failed \/ IsError(result'))
    /\ UNCHANGED <<request, evaluations, precision, budgeting, user, exports, granted, task, calculation>>

\* The caller takes the mapping; the engine is ready for the next call.
Respond ==
    /\ stack = <<>>
    /\ result # NoResult
    /\ result' = NoResult
    /\ request' = NoRequest
    /\ evaluations' = 0
    /\ UNCHANGED <<stack, precision, failed, budgeting, user, exports, granted, task, calculation>>

Next == EvaluateSweepKind \/ EvaluateDirectKind \/ SweepStep \/ SweepReturn \/ Respond

Spec == Init /\ [][Next]_vars

(***************************************************************************)
(* Properties.                                                             *)
(***************************************************************************)
\* The dispatcher has returned and its caller has not yet taken the mapping.
Finished == stack = <<>> /\ result # NoResult

Served(kind) == Finished /\ request.kind = kind

Returned(kind) == Served(kind) /\ ~IsError(result)

SweepFrames == {i \in 1..Len(stack) : IsSweepFrame(stack[i])}

EvaluatorFrames(kind) ==
    {i \in 1..Len(stack) : ~IsSweepFrame(stack[i]) /\ stack[i].kind = kind}

\* C1: a sweep makes at most 5 re-evaluations per axis (10 per call, 11 with
\* the base re-pricing of Black-Scholes), and a re-evaluation starts no sweep
\* of its own: there are never two sweeps in progress, and one request never
\* costs more than 1 + 11 evaluations.
C1_SweepsDoNotNest ==
    /\ Cardinality(SweepFrames) <= 1
    /\ evaluations <= 1 + 11

C3_LowDiscountRateRejected ==
    (Served("dcf")
       /\ IsNum(DcfParams(request.params).initial_revenue)
       /\ RLe(DcfParams(request.params).discount_rate,
              DcfParams(request.params).terminal_growth))
    => IsError(result)

\* C4: a Black-Scholes request with S > 0, K > 0, T > 0 and sigma > 0 is
\* answered with a pricing mapping (price, Greeks, moneyness), not an error.
C4_ValidOptionPriced ==
    (Served("black_scholes")
       /\ RSign(Get(request.params, "prix_actif", RInt(100))) > 0
       /\ RSign(Get(request.params, "prix_exercice", RInt(100))) > 0
       /\ RSign(Get(request.params, "temps_echeance", One)) > 0
       /\ RSign(Get(request.params, "volatilite", Pct(20))) > 0
       /\ Get(request.params, "type_option", "call") # NotAString)
    => (~IsError(result) /\ "prix_option" \in DOMAIN result)

\* C5: whatever the kind and the parameters, the dispatcher returns a mapping,
\* a result or one whose only key is 'error'; no exception reaches the
\* caller; the engine's one field keeps its value, so that a call answers
\* the same whether or not an earlier call failed.
C5_MappingOrErrorReturned ==
    /\ precision = 6
    /\ Finished =>
          /\ ~Raised(result)
          /\ IsError(result) => DOMAIN result = {"error"}
          /\ request.kind \in DirectKinds =>
                result = calculate_financial_model(request.kind, request.params, request.solved)

C5_Witness == failed /\ Finished /\ ~IsError(result) /\ request.kind \in EngineKinds

\* The constant-payment schedule of the loan request that was served.
ServedConstantSchedule ==
    LET in == LoanParams(request.params)
        monthly_rate == RDiv(in.annual_rate, RInt(12))
        duration == ToInt(in.months)
    IN  generate_constant_amortization_schedule(
            in.loan_amount, monthly_rate, duration,
            ConstantPayment(in.loan_amount, monthly_rate, duration).value)

\* C6: in a constant-payment schedule (P > 0, rate >= 0, n >= 1) the principal
\* portions sum to P within 1e-6 of P, and the last remaining balance is 0.
C6_PrincipalSumsToLoan ==
    (Returned("loan_amortization")
       /\ LoanParams(request.params).amortization_type = "constant"
       /\ RSign(LoanParams(request.params).loan_amount) > 0
       /\ RSign(LoanParams(request.params).annual_rate) >= 0
       /\ ToInt(LoanParams(request.params).months) >= 1)
    => LET P == LoanParams(request.params).loan_amount
           schedule == ServedConstantSchedule
           n == Len(schedule)
       IN  /\ RLe(RAbs(RSub(SumField(schedule, "capital", n), P)),
                  RMul(Rat(1, 1000000), P))
           /\ schedule[n].capital_restant = Zero

\* C7: for each policy and n >= 1 the schedule delivered in the result has
\* one record per period 1..n, a remaining balance that never increases, and
\* a last remaining balance of 0.
C7_DeliveredScheduleComplete ==
    (Returned("loan_amortization")
       /\ LoanParams(request.params).amortization_type \in LoanTypes
       /\ RSign(LoanParams(request.params).loan_amount) > 0
       /\ RSign(LoanParams(request.params).annual_rate) >= 0
       /\ ToInt(LoanParams(request.params).months) >= 1)
    => LET t == result.tableau_amortissement
           n == ToInt(LoanParams(request.params).months)
       IN  /\ Len(t) = n
           /\ \A k \in 1..Len(t) : t[k].mois = k
           /\ \A k \in 1..(Len(t) - 1) : RLe(t[k + 1].capital_restant, t[k].capital_restant)
           /\ t[Len(t)].capital_restant = Zero

\* A loan request with a positive principal and a positive rate was answered.
PositiveRateLoan ==
    /\ Returned("loan_amortization")
    /\ RSign(LoanParams(request.params).loan_amount) > 0
    /\ RSign(LoanParams(request.params).annual_rate) > 0
    /\ ToInt(LoanParams(request.params).months) >= 1

\* Total interest summed from the schedule generated for the served loan
\* under policy `ty`.
ScheduleInterest(ty) ==
    LET in == LoanParams(request.params)
        made == LoanSchedule(in.loan_amount, RDiv(in.annual_rate, RInt(12)),
                             ToInt(in.months), ty)
    IN  SumField(made.schedule, "interets", Len(made.schedule))

\* The totals of the comparison helper before rounding.
HelperInterest(ty) ==
    LET in == LoanParams(request.params)
        monthly_rate == RDiv(in.annual_rate, RInt(12))
        duration == ToInt(in.months)
    IN  CASE ty = "constant" ->
                ConstantTotalInterest(in.loan_amount,
                    ConstantPayment(in.loan_amount, monthly_rate, duration).value, duration)
          [] ty = "lineaire" -> LinearTotalInterest(in.loan_amount, monthly_rate, duration)
          [] OTHER -> InFineTotalInterest(in.loan_amount, monthly_rate, duration)

\* C8 as stated: for any positive rate total interest is strictly ordered
\* linear < constant < in-fine, in the totals summed from the schedules and
\* in the totals the comparison helper reports.
C8_StrictInterestOrdering ==
    PositiveRateLoan =>
        /\ RLt(ScheduleInterest("lineaire"), ScheduleInterest("constant"))
        /\ RLt(ScheduleInterest("constant"), ScheduleInterest("in_fine"))
        /\ RLt(result.comparaison_types.lineaire.total_interets,
               result.comparaison_types.constant.total_interets)
        /\ RLt(result.comparaison_types.constant.total_interets,
               result.comparaison_types.in_fine.total_interets)

\* C8 amended: with a positive rate and n >= 2 the totals are ordered
\* linear <= constant <= in-fine as reported (rounded), both summed from the
\* schedules and in the comparison helper, and strictly ordered before
\* rounding; with n = 1 the three totals are equal.
C8_InterestOrdering ==
    PositiveRateLoan =>
        IF ToInt(LoanParams(request.params).months) >= 2
        THEN /\ RLe(ScheduleInterest("lineaire"), ScheduleInterest("constant"))
             /\ RLe(ScheduleInterest("constant"), ScheduleInterest("in_fine"))
             /\ RLe(result.comparaison_types.lineaire.total_interets,
                    result.comparaison_types.constant.total_interets)
             /\ RLe(result.comparaison_types.constant.total_interets,
                    result.comparaison_types.in_fine.total_interets)
             /\ RLt(HelperInterest("lineaire"), HelperInterest("constant"))
             /\ RLt(HelperInterest("constant"), HelperInterest("in_fine"))
        ELSE /\ HelperInterest("lineaire") = HelperInterest("constant")
             /\ HelperInterest("constant") = HelperInterest("in_fine")

C8_Witness ==
    /\ PositiveRateLoan
    /\ ToInt(LoanParams(request.params).months) >= 2
    /\ RLt(result.comparaison_types.lineaire.total_interets,
           result.comparaison_types.constant.total_interets)

\* C9: whatever the root-finder produced, every IRR the utility returns is
\* absent or a rate r with |NPV(r)| < 1e-6 (hence < 1e-4) and -0.99 < r < 1.
C9_IrrAbsentOrRoot ==
    \A i \in EvaluatorFrames("investment_budgeting") :
        LET c == stack[i].core IN
        \/ IsNone(c.irr)
        \/ /\ RLt(RAbs(npv_function(c.initial_investment, c.cash_flows, c.irr.value)),
                  Rat(1, 1000000))
           /\ RLt(RAbs(npv_function(c.initial_investment, c.cash_flows, c.irr.value)),
                  Rat(1, 10000))
           /\ RLt(Rat(-99, 100), c.irr.value)
           /\ RLt(c.irr.value, One)

C9_Witness ==
    /\ EvaluatorFrames("investment_budgeting") # {}
    /\ stack[1].kind = "investment_budgeting"
    /\ ~IsNone(stack[1].core.irr)
    /\ stack[1].core.irr.value # stack[1].core.discount_rate

\* C10: the result's irr is absent exactly when the utility returned no
\* admissible root; for a root r it reports r as a percentage and the flag
\* tir_superieur_cout_capital is (r > discount_rate).
C10_IrrReportedWhenFound ==
    Returned("investment_budgeting") =>
        LET c == InvCore(request.params, request.solved) IN
        /\ IsNone(result.tir) <=> IsNone(c.irr)
        /\ ~IsNone(c.irr) =>
              /\ result.tir = Some(RRoundPct(c.irr.value, 2))
              /\ result.decision.tir_superieur_cout_capital = RLt(c.discount_rate, c.irr.value)

\* C_k = cf_1 + .. + cf_k
RECURSIVE CumulativeFlow(_, _)
CumulativeFlow(flows, k) ==
    IF k = 0 THEN Zero ELSE RAdd(CumulativeFlow(flows, k - 1), flows[k])

\* The periods whose cumulative flow has reached the target.
Reaching(target, flows) ==
    {k \in 1..Len(flows) : RLe(target, CumulativeFlow(flows, k))}

FirstReaching(target, flows) ==
    CHOOSE k \in Reaching(target, flows) : \A j \in Reaching(target, flows) : k <= j

\* k - (C_k - target) / cf_k at the first period k that reaches the target,
\* the stream length when no period does.
StatedPayback(target, flows) ==
    IF Reaching(target, flows) = {} THEN RInt(Len(flows))
    ELSE LET k == FirstReaching(target, flows)
         IN  RSub(RInt(k), RDiv(RSub(CumulativeFlow(flows, k), target), flows[k]))

\* C11: with I > 0 the simple payback is k - (C_k - I)/cf_k at the first
\* period k whose cumulative undiscounted flow reaches I, a value in
\* (k-1, k]; when no period reaches I it is the stream length n.
C11_SimplePaybackInterpolated ==
    \A i \in EvaluatorFrames("investment_budgeting") :
        LET c == stack[i].core IN
        RSign(c.initial_investment) > 0 =>
            /\ c.payback_period = StatedPayback(c.initial_investment, c.cash_flows)
            /\ IF Reaching(c.initial_investment, c.cash_flows) = {}
               THEN c.payback_period = RInt(Len(c.cash_flows))
               ELSE LET k == FirstReaching(c.initial_investment, c.cash_flows)
                    IN  /\ RLt(RInt(k - 1), c.payback_period)
                        /\ RLe(c.payback_period, RInt(k))

C11_Witness ==
    /\ EvaluatorFrames("investment_budgeting") # {}
    /\ stack[1].kind = "investment_budgeting"
    /\ RSign(stack[1].core.initial_investment) > 0
    /\ Reaching(stack[1].core.initial_investment, stack[1].core.cash_flows) # {}
    /\ FirstReaching(stack[1].core.initial_investment, stack[1].core.cash_flows) = 3
    /\ stack[1].core.payback_period[2] # 1

\* The stream pv_t = cf_t / (1 + r)^t.
DiscountedStream(flows, rate) ==
    [t \in 1..Len(flows) |-> RDiv(flows[t], RPow(RAdd(One, rate), t))]

\* C12: the discounted payback is the simple-payback procedure applied to the
\* discounted stream pv_t = cf_t/(1+r)^t, the values whose sum makes the NPV.
C12_DiscountedPaybackOnDiscountedStream ==
    \A i \in EvaluatorFrames("investment_budgeting") :
        LET c == stack[i].core IN
        RSign(c.initial_investment) > 0 =>
            c.discounted_payback =
                StatedPayback(c.initial_investment,
                              DiscountedStream(c.cash_flows, c.discount_rate))

\* The stream the request asks to evaluate: the one supplied, or project_life
\* copies of the uniform flow.
RequestedStream(p) ==
    IF Get(p, "flux_annuels", <<>>) # <<>> THEN p.flux_annuels
    ELSE [t \in 1..ToInt(Get(p, "duree_vie", RInt(5))) |->
             Get(p, "flux_uniforme", RInt(DefaultFluxUniforme))]

\* C13: npv = -I + sum of cf_t/(1+r)^t over the supplied stream (or the
\* uniform one), profitability_index = (npv + I)/I, and the flags of the
\* result are rentable = (npv > 0), tir_superieur_cout_capital =
\* (irr > discount_rate), indice_prof_acceptable = (profitability_index > 1).
C13_NpvIndexAndFlags ==
    Returned("investment_budgeting") =>
        LET c == InvCore(request.params, request.solved)
            I == c.initial_investment
            npv == RSub(CumulativeFlow(DiscountedStream(RequestedStream(request.params),
                                                        c.discount_rate),
                                       Len(RequestedStream(request.params))), I)
        IN  /\ c.cash_flows = RequestedStream(request.params)
            /\ c.npv = npv
            /\ c.profitability_index = RDiv(RAdd(npv, I), I)
            /\ result.decision.rentable = (RSign(npv) > 0)
            /\ result.decision.tir_superieur_cout_capital
                  = (~IsNone(c.irr) /\ RLt(c.discount_rate, c.irr.value))
            /\ result.decision.indice_prof_acceptable = RLt(One, RDiv(RAdd(npv, I), I))

\* A bond request with coupon_rate = market_rate and frequency >= 1 was
\* answered with a pricing.
ParBondPriced ==
    /\ Returned("bond_pricing")
    /\ Get(request.params, "taux_coupon", Pct(5)) = Get(request.params, "taux_marche", Pct(6))
    /\ ToInt(Get(request.params, "frequence_paiement", RInt(2))) >= 1

\* periods = int(years_to_maturity * frequency) of the bond request served.
RequestedPeriods ==
    ToInt(RMul(Get(request.params, "echeance", RInt(5)),
               RInt(ToInt(Get(request.params, "frequence_paiement", RInt(2))))))

\* pv_coupons + pv_principal of the bond request served, before rounding.
RequestedBondPrice ==
    LET F == Get(request.params, "valeur_nominale", RInt(DefaultValeurNominale))
        m == ToInt(Get(request.params, "frequence_paiement", RInt(2)))
        i == RDiv(Get(request.params, "taux_marche", Pct(6)), RInt(m))
        c == RDiv(RMul(Get(request.params, "taux_coupon", Pct(5)), F), RInt(m))
        n == RequestedPeriods
    IN  RAdd(PvCoupons(c, i, n),
             RDiv(F, IF n >= 0 THEN RPow(RAdd(One, i), n) ELSE RInv(RPow(RAdd(One, i), 0 - n))))

PricedAtPar ==
    LET F == Get(request.params, "valeur_nominale", RInt(DefaultValeurNominale))
    IN  /\ RLe(RAbs(RSub(RequestedBondPrice, F)), Rat(1, 10000))
        /\ RLe(RAbs(RSub(result.prix_obligation, F)), Rat(1, 10000))
        /\ result.prix_obligation = RRound(RequestedBondPrice, 2)

BondResultKeys ==
    {"prix_obligation", "valeur_nominale", "valeur_actuelle_coupons",
     "valeur_actuelle_principal", "taux_coupon", "taux_marche", "echeance_annees",
     "duration", "duration_modifiee", "convexite", "rendement_echeance",
     "calendrier_coupons", "analyse_risque", "recommandations"}

\* The yield reported reprices the bond served to its current price.
ReportedYieldReprices ==
    LET F == Get(request.params, "valeur_nominale", RInt(DefaultValeurNominale))
        m == ToInt(Get(request.params, "frequence_paiement", RInt(2)))
        c == RDiv(RMul(Get(request.params, "taux_coupon", Pct(5)), F), RInt(m))
        y == RDiv(result.rendement_echeance, RInt(100))
    IN  /\ RLe(Zero, y) /\ RLe(y, One)
        /\ ytm_function(F, c, m, RequestedPeriods,
                        Get(request.params, "prix_actuel", RequestedBondPrice), y) = Zero

\* C15: the yield reported is a rate in [0, 1] that reprices the bond to the
\* current price, or it is the coupon rate used as fallback and the result
\* then carries a label telling that the yield is approximate.
C15_YieldSolvedOrLabelled ==
    Returned("bond_pricing") =>
        \/ ReportedYieldReprices
        \/ /\ RDiv(result.rendement_echeance, RInt(100)) = Get(request.params, "taux_coupon", Pct(5))
           /\ DOMAIN result \ BondResultKeys # {}

\* numerator / divisor, and 0 when the divisor is 0.
StatedQuotient(numerator, divisor) ==
    IF RIsZero(divisor) THEN Zero ELSE RDiv(numerator, divisor)

\* 365 / turnover rounded to days, and 0 when the turnover is 0.
StatedDays(turnover) ==
    IF RIsZero(turnover) THEN Zero ELSE RRound(RDiv(RInt(DaysPerYear), turnover), 0)

\* The ratios mapping in which every ratio is its defining quotient, guarded
\* on a zero divisor only.
StatedRatios(p) ==
    LET In(k) == RatioInput(p, k)
        equity == RSub(In("actif_total"), In("passif_total"))
        Pc(x) == RRoundPct(x, 1)
    IN  [liquidite |->
            [ratio_liquidite_generale |->
                 RRound(StatedQuotient(In("actif_circulant"), In("passif_circulant")), 2),
             ratio_liquidite_reduite |->
                 RRound(StatedQuotient(RSub(In("actif_circulant"), In("stocks")),
                                       In("passif_circulant")), 2),
             ratio_liquidite_immediate |->
                 RRound(StatedQuotient(In("tresorerie"), In("passif_circulant")), 2)],
         activite |->
            [rotation_actif |->
                 RRound(StatedQuotient(In("chiffre_affaires"), In("actif_total")), 2),
             rotation_stocks |->
                 RRound(StatedQuotient(RMul(In("chiffre_affaires"), Rat(7, 10)),
                                       In("stocks")), 2),
             rotation_creances |->
                 RRound(StatedQuotient(In("chiffre_affaires"), In("creances")), 2),
             duree_stocks_jours |->
                 StatedDays(StatedQuotient(RMul(In("chiffre_affaires"), Rat(7, 10)),
                                           In("stocks"))),
             duree_creances_jours |->
                 StatedDays(StatedQuotient(In("chiffre_affaires"), In("creances")))],
         endettement |->
            [ratio_endettement |->
                 RRound(StatedQuotient(In("passif_total"), In("actif_total")), 2),
             ratio_dette_capitaux |-> RRound(StatedQuotient(In("passif_total"), equity), 2),
             ratio_autonomie |-> RRound(StatedQuotient(equity, In("actif_total")), 2),
             couverture_interets |->
                 RRound(StatedQuotient(In("benefice_exploitation"),
                                       In("charges_financieres")), 2)],
         rentabilite |->
            [marge_brute |-> Pc(StatedQuotient(In("benefice_brut"), In("chiffre_affaires"))),
             marge_exploitation |->
                 Pc(StatedQuotient(In("benefice_exploitation"), In("chiffre_affaires"))),
             marge_nette |-> Pc(StatedQuotient(In("benefice_net"), In("chiffre_affaires"))),
             rentabilite_actif |-> Pc(StatedQuotient(In("benefice_net"), In("actif_total"))),
             rentabilite_capitaux |-> Pc(StatedQuotient(In("benefice_net"), equity))]]

\* Every parameter of the ratio request served is a number.
NumericRatioRequest ==
    /\ Served("financial_ratios")
    /\ \A k \in DOMAIN RatioDefaults : IsNum(RatioInput(request.params, k))

\* C16: every ratio is its defining quotient (rounded) when its divisor is not
\* zero and 0 when it is zero, and a zero divisor never makes the call fail.
C16_RatiosGuardZeroDivisor ==
    NumericRatioRequest =>
        /\ ~IsError(result)
        /\ \A g \in DOMAIN StatedRatios(request.params) :
              \A k \in DOMAIN StatedRatios(request.params)[g] :
                 result.ratios[g][k] = StatedRatios(request.params)[g][k]

\* The points the stated tiers give a current ratio.
StatedLiquidityPoints(current_ratio) ==
    IF RLe(Rat(3, 2), current_ratio) THEN 20
    ELSE IF RLe(Rat(6, 5), current_ratio) THEN 15
    ELSE IF RLe(One, current_ratio) THEN 10
    ELSE 0

ScoreDimensions == <<"liquidite", "endettement", "rentabilite", "rotation", "couverture">>

FlaggedWeak(analysis, dimension) ==
    \E i \in DOMAIN analysis.faiblesses : analysis.faiblesses[i] = dimension

SubScoreTotal(analysis) ==
    analysis.sub_scores[1] + analysis.sub_scores[2] + analysis.sub_scores[3]
    + analysis.sub_scores[4] + analysis.sub_scores[5]

\* C17: the health score is the sum of five sub-scores, each 0, 10, 15 or 20;
\* the liquidity sub-score follows the stated tiers of the current ratio
\* (>= 1.5: 20, >= 1.2: 15, >= 1.0: 10, otherwise 0); a sub-score is 0 exactly
\* when its dimension is flagged as a weakness; the overall score is the
\* integer total, between 0 and 100.
C17_HealthScoreTiers ==
    Returned("financial_ratios") =>
        /\ \A i \in 1..5 :
              /\ result.analyse.sub_scores[i] \in {0, 10, 15, 20}
              /\ result.analyse.sub_scores[i] = 0
                    <=> FlaggedWeak(result.analyse, ScoreDimensions[i])
        /\ result.analyse.sub_scores[1]
              = StatedLiquidityPoints(result.ratios.liquidite.ratio_liquidite_generale)
        /\ result.score_global = RInt(SubScoreTotal(result.analyse))
        /\ SubScoreTotal(result.analyse) \in 0..100

\* A report whose current ratio sits exactly on the 1.5 threshold after
\* rounding, with a weakness flagged in another dimension.
C17_Witness ==
    /\ Returned("financial_ratios")
    /\ result.ratios.liquidite.ratio_liquidite_generale = Rat(3, 2)
    /\ result.analyse.sub_scores[1] = 20
    /\ FlaggedWeak(result.analyse, "endettement")
    /\ result.score_global = RInt(75)

\* C18: for every input of calculate_financial_ratios the reported DuPont
\* value equals the reported return on equity.
C18_DupontEqualsRoe ==
    Returned("financial_ratios") =>
        result.ratios.rentabilite.dupont_roe = result.ratios.rentabilite.rentabilite_capitaux

\* The option request served has numeric parameters and T <= 0 or sigma <= 0.
DegenerateOptionRequest ==
    /\ Served("black_scholes")
    /\ IsNum(Get(request.params, "temps_echeance", One))
    /\ IsNum(Get(request.params, "volatilite", Pct(20)))
    /\ \/ RSign(Get(request.params, "temps_echeance", One)) <= 0
       \/ RSign(Get(request.params, "volatilite", Pct(20))) <= 0

\* C19: when T <= 0 or sigma <= 0, calculate_black_scholes returns an error
\* outcome, never a result carrying a price, d1, d2 or Greeks (which numpy
\* would have evaluated to NaN or infinity).
C19_DegenerateOptionFails ==
    DegenerateOptionRequest =>
        /\ IsError(result)
        /\ DOMAIN result = {"error"}

\* A request with T = 0 whose parameters all convert, answered after its
\* sweep was entered.
C19_Witness ==
    /\ DegenerateOptionRequest
    /\ ~Raised(BsCore(request.params))
    /\ ~BsCore(request.params).finite
    /\ RIsZero(Get(request.params, "temps_echeance", One))
    /\ evaluations > 1
    /\ IsError(result)

\* The option request served has S, K, T and sigma positive and asks for a
\* call or a put.
ParityRequest ==
    /\ Served("black_scholes")
    /\ ~Raised(BsCore(request.params))
    /\ RSign(BsCore(request.params).S) > 0
    /\ RSign(BsCore(request.params).K) > 0
    /\ RSign(BsCore(request.params).T) > 0
    /\ RSign(BsCore(request.params).sigma) > 0
    /\ BsCore(request.params).option_type \in {"call", "put"}

\* The same request for the other type of option.
OppositeOption(p) ==
    [k \in DOMAIN p \cup {"type_option"} |->
       IF k # "type_option" THEN p[k]
       ELSE IF Get(p, "type_option", "call") = "call" THEN "put" ELSE "call"]

\* The price lines 249-257 compute for request p.
PricedOption(p) == BsFinish(BsCore(p), <<>>).prix_option

\* With N(x) + N(-x) = 1, the call formula minus the put formula over the same
\* finite d1 and d2 is S - K*exp(-rT).
ParityTerms(a, b) ==
    /\ {a.formula, b.formula} = {"call", "put"}
    /\ <<a.S, a.K, a.T, a.r, a.sigma>> = <<b.S, b.K, b.T, b.r, b.sigma>>
    /\ a.finite /\ b.finite

\* C20: put-call parity: for the same S, K, T, r and sigma, the price returned
\* for a call and the price for a put differ by S - K*exp(-rT).
C20_PutCallParity ==
    ParityRequest =>
        /\ "prix_option" \in DOMAIN result
        /\ ParityTerms(result.prix_option, PricedOption(OppositeOption(request.params)))

\* The enterprise value the valuation reports for parameters p.
RerunValue(p) == RRound(DcfCore(p).enterprise_value, 0)

\* The i-th entry of an axis of the sweep is the re-run at the i-th delta, with
\* its variation from the base value (as reported, or before its rounding).
SweepEntryStated(entry, scenario, base) ==
    /\ entry.scenario = scenario.delta
    /\ ~Raised(DcfCore(scenario.params))
    /\ entry.valeur = RerunValue(scenario.params)
    /\ entry.variation \in {RMul(RSub(RDiv(entry.valeur, b), One), RInt(100)) :
                              b \in {base, DcfCore(request.params).enterprise_value}}
    /\ RIsZero(scenario.delta) => (entry.valeur = base /\ RIsZero(entry.variation))

\* C22: the sensitivity of a DCF valuation with discount_rate > terminal_growth
\* has exactly five entries on the
\* growth axis and five on the discount axis, at deltas -2%, -1%, 0, +1%, +2%,
\* each with the enterprise value of the re-run and its percentage variation
\* from the base value; the delta-0 entry has the base value and variation 0.
C22_DcfSweepComplete ==
    (Returned("dcf")
       /\ RLt(DcfParams(request.params).terminal_growth,
              DcfParams(request.params).discount_rate)) =>
        /\ DOMAIN result.analyse_sensibilite = {"croissance", "actualisation"}
        /\ \A i \in 1..10 :
              LET axis == DcfScenarios(request.params)[i].axis
                  k == IF i <= 5 THEN i ELSE i - 5
              IN  /\ Len(result.analyse_sensibilite[axis]) = 5
                  /\ SweepEntryStated(result.analyse_sensibilite[axis][k],
                                      DcfScenarios(request.params)[i],
                                      result.valeur_entreprise)

\* The stated classification: a call with S > K and a put with S < K are in
\* the money, everything else (S = K included) is out of the money.
StatedMoneyness(S, K, priced_as) ==
    IF (priced_as = "call" /\ RLt(K, S)) \/ (priced_as = "put" /\ RLt(S, K))
    THEN "ITM" ELSE "OTM"

\* C21: the moneyness reported for a call or a put is ITM or OTM: ITM for a
\* call exactly when S > K, for a put exactly when S < K, and OTM otherwise,
\* S = K included.
C21_MoneynessItmOtm ==
    ParityRequest =>
        /\ "moneyness" \in DOMAIN result
        /\ result.moneyness \in {"ITM", "OTM"}
        /\ result.moneyness = StatedMoneyness(BsCore(request.params).S,
                                              BsCore(request.params).K,
                                              BsCore(request.params).option_type)

\* The option request served has S, K, T and sigma positive, whatever the
\* spelling of its type.
SpelledOptionRequest ==
    /\ Served("black_scholes")
    /\ ~Raised(BsCore(request.params))
    /\ RSign(BsCore(request.params).S) > 0
    /\ RSign(BsCore(request.params).K) > 0
    /\ RSign(BsCore(request.params).T) > 0
    /\ RSign(BsCore(request.params).sigma) > 0

\* C28: moneyness is classified with the option type that chose the pricing
\* branch: whatever the spelling of type_option, an option priced with the
\* call formula is reported ITM exactly when S > K, and one priced with the
\* put formula exactly when S < K.
C28_MoneynessFollowsPricingBranch ==
    SpelledOptionRequest =>
        /\ "moneyness" \in DOMAIN result
        /\ result.greeks_of = BsCore(request.params).branch
        /\ (result.moneyness = "ITM")
              <=> StatedMoneyness(BsCore(request.params).S, BsCore(request.params).K,
                                  BsCore(request.params).branch) = "ITM"

\* The standard closed forms: the carry term of theta is subtracted for a call
\* and added for a put, rho is positive for a call and negative for a put.
StatedGreeks(priced_as) ==
    IF priced_as = "call"
    THEN [theta |-> [decay |-> -1, carry |-> -1, cdf |-> "d2"],
          rho |-> [sign |-> 1, cdf |-> "d2"]]
    ELSE [theta |-> [decay |-> -1, carry |-> 1, cdf |-> "-d2"],
          rho |-> [sign |-> -1, cdf |-> "-d2"]]

\* C25: theta and rho follow the standard closed forms of the option type:
\* call rho = K*T*exp(-rT)*N(d2) >= 0 and theta = decay - r*K*exp(-rT)*N(d2);
\* put rho = -K*T*exp(-rT)*N(-d2) <= 0 and theta = decay + r*K*exp(-rT)*N(-d2).
C25_ThetaRhoClosedForms ==
    SpelledOptionRequest =>
        /\ "grecques" \in DOMAIN result
        /\ result.grecques = StatedGreeks(BsCore(request.params).branch)

\* The stated recurrence of period t: <<revenue, ebitda, ebit, nopat, fcf, pv>>.
StatedYear(in, t) ==
    LET revenue == RMul(in.initial_revenue, RPow(RAdd(One, in.growth_rate), t))
        ebitda == RMul(revenue, in.ebitda_margin)
        depreciation == RMul(Rat(3, 100), revenue)
        ebit == RSub(ebitda, depreciation)
        tax == IF RSign(ebit) > 0 THEN RMul(ebit, in.tax_rate) ELSE Zero
        nopat == RSub(ebit, tax)
        capex == RMul(revenue, in.capex_rate)
        wc_change == RMul(RMul(revenue, in.working_capital_rate), in.growth_rate)
        fcf == RSub(RSub(RAdd(nopat, depreciation), capex), wc_change)
    IN  [revenue |-> revenue, ebitda |-> ebitda, ebit |-> ebit, nopat |-> nopat,
         fcf |-> fcf, pv |-> RDiv(fcf, RPow(RAdd(One, in.discount_rate), t))]

\* terminal_value = fcf_N * (1 + terminal_growth) / (discount_rate - terminal_growth)
StatedTerminalValue(in, n) ==
    RDiv(RMul(StatedYear(in, n).fcf, RAdd(One, in.terminal_growth)),
         RSub(in.discount_rate, in.terminal_growth))

\* C24: every projected period follows the stated recurrence, and the terminal
\* value is fcf_N*(1+terminal_growth)/(discount_rate-terminal_growth) with
\* fcf_N the free cash flow of the last period that was discounted into pv_N.
C24_DcfRecurrenceAndTerminal ==
    Returned("dcf") =>
        LET in == DcfCore(request.params).in
            n == Len(result.projections)
        IN  /\ n = in.projection_years
            /\ \A t \in 1..n :
                  /\ result.projections[t].revenus = RRound(StatedYear(in, t).revenue, 0)
                  /\ result.projections[t].ebitda = RRound(StatedYear(in, t).ebitda, 0)
                  /\ result.projections[t].ebit = RRound(StatedYear(in, t).ebit, 0)
                  /\ result.projections[t].nopat = RRound(StatedYear(in, t).nopat, 0)
                  /\ result.projections[t].fcf = RRound(StatedYear(in, t).fcf, 0)
                  /\ result.projections[t].valeur_actuelle = RRound(StatedYear(in, t).pv, 0)
            /\ result.valeur_terminale = RRound(StatedTerminalValue(in, n), 0)

\* The number of scoring dimensions with no points.
ZeroSubScores(analysis) == Cardinality({i \in 1..5 : analysis.sub_scores[i] = 0})

\* C27: in every ratio report faiblesses has one entry per scoring dimension
\* that scored 0, each such dimension adds exactly one recommendation,
\* recommandations is never empty (two general entries when no dimension
\* scored 0), and the overall score is at most 100 - 20 * len(faiblesses).
C27_WeaknessesAndRecommendations ==
    Returned("financial_ratios") =>
        /\ Len(result.faiblesses) = ZeroSubScores(result.analyse)
        /\ Len(result.recommandations) =
              IF ZeroSubScores(result.analyse) = 0 THEN 2 ELSE ZeroSubScores(result.analyse)
        /\ result.recommandations # <<>>
        /\ RLe(result.score_global, RInt(100 - 20 * Len(result.faiblesses)))

\* A report with three weaknesses, three recommendations and a score of at
\* most 40.
C27_Witness ==
    /\ Returned("financial_ratios")
    /\ Len(result.faiblesses) = 3
    /\ Len(result.recommandations) = 3
    /\ RLe(result.score_global, RInt(40))

(***************************************************************************)
(* calculate_investment_budgeting loop by loop: the discounting loop of    *)
(* lines 131-144 one pass at a time, then the decision of lines 156 and    *)
(* 170-174.  The statements in between (IRR, paybacks, sweep) read npv and *)
(* discounted_flows and change neither.                                    *)
(***************************************************************************)
NoDecision == [pending |-> TRUE]

BudgetingInputs ==
    {[investissement_initial |-> RInt(i0), flux_annuels |-> [t \in 1..nr[1] |-> RInt(f)],
      taux_actualisation |-> nr[2]] :
        i0 \in {100, 1000}, f \in {50, 100},
        nr \in {<<16, One>>, <<12, Pct(50)>>, <<5, Pct(10)>>}}
    \cup {[investissement_initial |-> RInt(134217728),
           flux_annuels |-> <<RInt(134217727), <<134217729, 134217728>>>>,
           taux_actualisation |-> Zero]}

\* Lines 120-132: the parameters read, npv = -initial_investment, no flow yet.
BudgetingBegin(p) ==
    [initial_investment |-> Get(p, "investissement_initial", RInt(DefaultInvestissement)),
     annual_cash_flows |-> Get(p, "flux_annuels", <<>>),
     discount_rate |-> Get(p, "taux_actualisation", Pct(10)),
     year |-> 0,
     npv |-> RNeg(Get(p, "investissement_initial", RInt(DefaultInvestissement))),
     discounted_flows |-> <<>>,
     decision |-> NoDecision]

BudgetingInit ==
    /\ stack = <<>>
    /\ result = NoResult
    /\ request = NoRequest
    /\ evaluations = 0
    /\ precision = 6
    /\ failed = FALSE
    /\ budgeting \in {BudgetingBegin(p) : p \in BudgetingInputs}
    /\ user = NoUser
    /\ exports = <<>>
    /\ granted = 0
    /\ task = NoTask
    /\ calculation = NoCalculation

\* One pass of the loop of lines 134-144.
DiscountFlow ==
    /\ budgeting.year >= 0
    /\ budgeting.year < Len(budgeting.annual_cash_flows)
    /\ LET Passed(b, year, flow) ==
               [b EXCEPT !.year = year,
                         !.npv = FloatAdd(b.npv, RMul(b.annual_cash_flows[year],
                                                      RInv(RPow(RAdd(One, b.discount_rate),
                                                                year)))),
                         !.discounted_flows = Append(b.discounted_flows, flow)]
       IN  budgeting' = Passed(budgeting, budgeting.year + 1,
                               InvDiscountedFlow(budgeting.annual_cash_flows,
                                                 budgeting.discount_rate,
                                                 budgeting.year + 1))
    /\ UNCHANGED <<engine, user, exports, granted, task, calculation>>

\* Lines 156 and 170-174, with an IRR the solver did not find.
Decide ==
    /\ budgeting.year >= 0
    /\ budgeting.year = Len(budgeting.annual_cash_flows)
    /\ budgeting.decision = NoDecision
    /\ budgeting' =
          [budgeting EXCEPT
             !.decision = InvDecision(budgeting.npv, None, budgeting.discount_rate,
                                      InvProfitabilityIndex(budgeting.npv,
                                                            budgeting.initial_investment))]
    /\ UNCHANGED <<engine, user, exports, granted, task, calculation>>

BudgetingNext == DiscountFlow \/ Decide

BudgetingSpec == BudgetingInit /\ [][BudgetingNext]_vars

\* The investment analysis has its decision: its mapping is ready.
Decided == budgeting.year >= 0 /\ budgeting.decision # NoDecision

\* C23: in every cash-flow projection returned the period indices are the
\* contiguous integers 1..N in order, and for a positive discount rate the
\* reported discount factor strictly decreases from each period to the next.
C23_PeriodsContiguousFactorsDecreasing ==
    Decided =>
        /\ \A t \in 1..Len(budgeting.discounted_flows) :
              budgeting.discounted_flows[t].annee = t
        /\ Len(budgeting.discounted_flows) = Len(budgeting.annual_cash_flows)
        /\ RSign(budgeting.discount_rate) > 0 =>
              \A t \in 1..(Len(budgeting.discounted_flows) - 1) :
                 RLt(budgeting.discounted_flows[t + 1].facteur_actualisation,
                     budgeting.discounted_flows[t].facteur_actualisation)

\* C26: for a positive initial investment the two decision flags agree:
\* rentable (npv > 0) exactly when indice_prof_acceptable (index > 1).
C26_DecisionFlagsAgree ==
    (Decided /\ RSign(budgeting.initial_investment) > 0) =>
        (budgeting.decision.rentable <=> budgeting.decision.indice_prof_acceptable)

(***************************************************************************)
(* export_model on the User row.  Each request works on the copy of the    *)
(* row its session loaded (User.query.get), tests can_export on the copy,  *)
(* and use_free_export writes copy + 1 back on commit.  Requests of one    *)
(* user run concurrently, one database statement at a time.                *)
(***************************************************************************)
MaxInFlight == 2
MaxGranted == 5

AccountStatus == {"demo", "active_monthly", "active_yearly", "suspended"}
ExportFormats == {"pdf", "excel", "csv"}

\* User.can_export
can_export(self) ==
    IF self.account_status \in {"active_monthly", "active_yearly"}
    THEN TRUE
    ELSE self.free_exports_used < 3

ExportInit ==
    /\ stack = <<>>
    /\ result = NoResult
    /\ request = NoRequest
    /\ evaluations = 0
    /\ precision = 6
    /\ failed = FALSE
    /\ budgeting = NoBudgeting
    /\ user \in {[account_status |-> a, free_exports_used |-> 0] : a \in AccountStatus}
    /\ exports = <<>>
    /\ granted = 0
    /\ task = NoTask
    /\ calculation = NoCalculation

\* Lines 189-207: the rows are loaded; 404 without the model, 403 when the
\* copy cannot export, 400 for an unknown format; otherwise the request goes on.
ExportAdmit ==
    /\ user # NoUser
    /\ Len(exports) < MaxInFlight
    /\ granted + Len(exports) < MaxGranted
    /\ \E found \in BOOLEAN, export_format \in ExportFormats :
          IF found /\ can_export(user) /\ export_format \in {"pdf", "excel"}
          THEN exports' = Append(exports, [pc |-> "use", user |-> user, counted |-> TRUE])
          ELSE UNCHANGED exports
    /\ UNCHANGED <<engine, budgeting, user, granted, task, calculation>>

\* Lines 210-211 with User.use_free_export: only a demo copy is incremented
\* and committed, and the commit writes the copy's value to the row.
ExportUse ==
    /\ \E i \in 1..Len(exports) :
          /\ exports[i].pc = "use"
          /\ exports' = [exports EXCEPT ![i].pc = "generate"]
          /\ IF exports[i].user.account_status = "demo"
             THEN user' = [user EXCEPT !.free_exports_used =
                                           exports[i].user.free_exports_used + 1]
             ELSE UNCHANGED user
    /\ UNCHANGED <<engine, budgeting, granted, task, calculation>>

\* Lines 214-220: the export is generated and the request answered with 200.
ExportGenerate ==
    /\ \E i \in 1..Len(exports) :
          /\ exports[i].pc = "generate"
          /\ exports' = [j \in 1..(Len(exports) - 1) |->
                            IF j < i THEN exports[j] ELSE exports[j + 1]]
          /\ granted' = IF exports[i].counted THEN granted + 1 ELSE granted
    /\ UNCHANGED <<engine, budgeting, user, task, calculation>>

\* admin.reset_user_exports: the counter is set to 0 and committed.  The
\* exports counted from here on are those of requests admitted after it.
reset_user_exports ==
    /\ user # NoUser
    /\ user.free_exports_used > 0 \/ granted > 0
    /\ user' = [user EXCEPT !.free_exports_used = 0]
    /\ granted' = 0
    /\ exports' = [i \in 1..Len(exports) |-> [exports[i] EXCEPT !.counted = FALSE]]
    /\ UNCHANGED <<engine, budgeting, task, calculation>>

ExportNext == ExportAdmit \/ ExportUse \/ ExportGenerate \/ reset_user_exports

ExportSpec == ExportInit /\ [][ExportNext]_vars

\* C29: between two resets an account without an active subscription is
\* granted at most 3 exports under any interleaving, free_exports_used
\* never exceeds 3, and every granted export has consumed one unit of user, exports, granted.
C29_ExportQuotaHolds ==
    (user # NoUser /\ user.account_status \notin {"active_monthly", "active_yearly"}) =>
        /\ granted <= 3
        /\ user.free_exports_used <= 3
        /\ granted <= user.free_exports_used

(***************************************************************************)
(* calculate_model on the Task row: the row is committed with status       *)
(* 'processing', the model is calculated, then the model is saved and the  *)
(* task updated in one commit.  An exception anywhere rolls the session    *)
(* back and answers 500.                                                   *)
(***************************************************************************)
TaskInit ==
    /\ stack = <<>>
    /\ result = NoResult
    /\ request = NoRequest
    /\ evaluations = 0
    /\ precision = 6
    /\ failed = FALSE
    /\ budgeting = NoBudgeting
    /\ user = NoUser
    /\ exports = <<>>
    /\ granted = 0
    /\ task = NoTask
    /\ calculation = NoCalculation

\* Lines 87-108: 404 for a model type outside AVAILABLE_MODELS, 400 for an
\* empty body, otherwise the Task is committed with status 'processing'.
TaskBegin ==
    /\ calculation = NoCalculation
    /\ \E model_type \in DirectKinds, empty \in BOOLEAN :
       \E data \in DirectInputs(model_type) :
          IF model_type \notin SweepKinds \cup EngineKinds \cup PlaceholderKinds
          THEN /\ calculation' = [pc |-> "done", response |-> 404]
               /\ UNCHANGED task
          ELSE IF empty
          THEN /\ calculation' = [pc |-> "done", response |-> 400]
               /\ UNCHANGED task
          ELSE /\ task' = [status |-> "processing", input_data |-> data,
                           output_data |-> None]
               /\ calculation' = [pc |-> "calculate", model_type |-> model_type,
                                  data |-> data]
    /\ UNCHANGED <<engine, budgeting, user, exports, granted>>

\* Lines 111-130: results = calculate_financial_model(model_type, data); the
\* AI analysis is added to a result without an 'error' key.
TaskCalculate ==
    /\ calculation.pc = "calculate"
    /\ \E solved \in Solver(calculation.model_type) :
          LET Calculated(c, results) ==
                  [pc |-> "save", model_type |-> c.model_type, data |-> c.data,
                   results |-> results, analyse_ia |-> ~IsError(results)]
          IN  calculation' =
                  Calculated(calculation,
                             calculate_financial_model(calculation.model_type,
                                                       calculation.data, solved))
    /\ UNCHANGED <<engine, budgeting, user, exports, granted, task>>

\* Lines 133-159: the FinancialModel is added, the task set to 'completed'
\* with the results, and both committed; if saving raises, the session is
\* rolled back and the request answered with 500.
TaskSave ==
    /\ calculation.pc = "save"
    /\ \E raised \in BOOLEAN :
          IF raised
          THEN /\ calculation' = [pc |-> "done", response |-> 500]
               /\ UNCHANGED task
          ELSE /\ task' = [task EXCEPT !.status = "completed",
                                       !.output_data = calculation.results]
               /\ calculation' = [pc |-> "done", response |-> 200]
    /\ UNCHANGED <<engine, budgeting, user, exports, granted>>

TaskNext == TaskBegin \/ TaskCalculate \/ TaskSave

TaskSpec == TaskInit /\ [][TaskNext]_vars

\* C30: a Task committed with status 'processing' has left that status when
\* the request is answered, on every path, and a task is 'completed' only
\* with an output_data that has no 'error' key.
C30_TaskLeavesProcessing ==
    (calculation.pc = "done" /\ task # NoTask) =>
        /\ task.status # "processing"
        /\ task.status = "completed" => ~IsError(task.output_data)

====
